---- MODULE Spec2Model ----
(***************************************************************************)
(* A model of juriscraper's PACER notification e-mail parser               *)
(* (juriscraper/pacer/email.py): the classes NotificationEmail and         *)
(* S3NotificationEmail.                                                    *)
(*                                                                         *)
(* Text is modelled as a sequence of atoms.  An atom is an indivisible     *)
(* piece of text: a marker phrase the code searches for, a word, a blank,  *)
(* a line break.  Every regular expression and string method of the code   *)
(* is computed on these sequences.  Python's None is the value None.       *)
(***************************************************************************)
EXTENDS Integers, Sequences, FiniteSets, TLC

VARIABLES
    email,   \* the raw message text handed to the parser object
    self,    \* the fields of the S3NotificationEmail object
    call,    \* the evaluation of the `data` property in progress
    reads,   \* what the caller has got from `data` so far, in order
    others   \* the parser objects of other callers, which are not running

vars == <<email, self, call, reads, others>>

\* ------------------------------------------------------------------------
\* Bounds of the model.
\* ------------------------------------------------------------------------

\* The most docket tables an HTML body holds.
MaxTables == 2

\* The most times the caller reads `data` on one object.
MaxReads == 2

\* ------------------------------------------------------------------------
\* Text.
\* ------------------------------------------------------------------------

None == <<"<None>">>

SP == " "
NL == "\n"

\* Python's \s on the atoms of the model.
IsSpace(a) == a \in {SP, NL}

Min(S) == CHOOSE x \in S : \A y \in S : x <= y
Max(S) == CHOOSE x \in S : \A y \in S : y <= x

\* The least (greatest) member of S, or d for the empty set.
MinOr(S, d) == IF S = {} THEN d ELSE Min(S)
MaxOr(S, d) == IF S = {} THEN d ELSE Max(S)

MatchesAt(s, sub, i) ==
    /\ i >= 1
    /\ i + Len(sub) - 1 <= Len(s)
    /\ SubSeq(s, i, i + Len(sub) - 1) = sub

\* The first place at or after `from` where `sub` occurs in `s`, or 0.
Find(s, sub, from) ==
    MinOr({i \in from..(Len(s) - Len(sub) + 1) : MatchesAt(s, sub, i)}, 0)

\* Python's `sub in s`.
Contains(s, sub) == Find(s, sub, 1) # 0

\* The pieces of s from `from` on, the next separator being at i (0: none).
RECURSIVE SplitFrom(_, _, _)
SplitAt(s, sep, from, i) ==
    IF i = 0
    THEN <<SubSeq(s, from, Len(s))>>
    ELSE <<SubSeq(s, from, i - 1)>> \o SplitFrom(s, sep, i + Len(sep))

SplitFrom(s, sep, from) == SplitAt(s, sep, from, Find(s, sep, from))

\* Python's s.split(sep) for a non-empty separator.
split(s, sep) == SplitFrom(s, sep, 1)

Last(q) == q[Len(q)]

RECURSIVE Concat(_)
Concat(q) == IF q = <<>> THEN <<>> ELSE Head(q) \o Concat(Tail(q))

RECURSIVE lstrip(_)
lstrip(s) == IF s # <<>> /\ IsSpace(Head(s)) THEN lstrip(Tail(s)) ELSE s

RECURSIVE rstrip(_)
rstrip(s) ==
    IF s # <<>> /\ IsSpace(Last(s)) THEN rstrip(SubSeq(s, 1, Len(s) - 1)) ELSE s

\* Python's s.strip().
strip(s) == lstrip(rstrip(s))

RECURSIVE CollapseSpaces(_)
CollapseSpaces(s) ==
    IF s = <<>> THEN <<>>
    ELSE IF IsSpace(Head(s))
         THEN <<SP>> \o CollapseSpaces(lstrip(s))
         ELSE <<Head(s)>> \o CollapseSpaces(Tail(s))

\* lib.string_utils.clean_string: every run of white space becomes one blank
\* and the ends are trimmed.
clean_string(s) == strip(CollapseSpaces(s))

\* lib.string_utils.harmonize: the canonical spelling of a case name.
harmonize(s) == [i \in 1..Len(s) |-> IF s[i] = "vs." THEN "v." ELSE s[i]]

\* Python's truth value of a string or None.
Truthy(s) == s # None /\ s # <<>>

\* ------------------------------------------------------------------------
\* The messages the parser is given.
\* ------------------------------------------------------------------------

\* Court ids, letter by letter: a district court, a bankruptcy court the
\* short-description parser knows, and one it does not know.
Courts == { <<"n", "y", "s", "d">>, <<"c", "a", "c", "b">>, <<"f", "l", "s", "b">> }

NDA_MARKER == "Notice of Docket Activity"

\* NotificationEmail.ERROR_STRINGS.
ERROR_STRINGS == {
    "Notice of Electronic Claims Filing",
    "This is an announcement e-mail message generated by Court action through the CM/ECF system.",
    "Join ZoomGov Meeting",
    "Modified Dkt text from",
    "Modified Date Filed from",
    "Added Correct PDF to document" }

\* The docket numbers and the parties the messages are about.
DocketNumberAtoms == <<"1:21-cv-01451", "1:21-cv-01452", "1:21-cv-01453", "1:21-cv-01454">>
PartyAtoms        == <<"Bank1", "Bank2", "Bank3", "Bank4">>

\* The case name and the docket number of the i-th docket of a message.
CaseNameOf(i) == <<"Smith", SP, "vs.", SP, PartyAtoms[i]>>
DocketNoOf(i) == <<DocketNumberAtoms[i]>>

\* The subject line of a message about docket 1.
SubjectLine == <<"Activity in Case", SP>> \o DocketNoOf(1) \o <<"-", "SY", SP>>
               \o CaseNameOf(1) \o <<SP, "Order", SP>>

\* The subject line of a message about docket 2.
SubjectLine2 == <<"Activity in Case", SP>> \o DocketNoOf(2) \o <<"-", "SY", SP>>
                \o CaseNameOf(2) \o <<SP, "Order", SP>>

\* Document and case links.
Doc1Url     == <<"https://ecf/doc1/", "0123", "?caseid=", "456", "&de_seq_num=", "7", "&magic_num=", "99">>
Doc1UrlBare == <<"https://ecf/doc1/", "0123">>
NonceUrl    == <<"https://ecf/cgi-bin/DktRpt.pl?", "456">>
CaseIdUrl   == <<"https://ecf/n/beam/servlet/TransportRoom?", "caseId=", "789">>

\* The text every body starts with.
Preamble(nda, filed, err) ==
    (IF err THEN <<"Notice of Electronic Claims Filing", NL>> ELSE <<>>)
    \o (IF nda THEN <<NDA_MARKER, NL>> ELSE <<>>)
    \o <<"The following transaction was", SP>>
    \o (IF filed THEN <<"filed", SP, "on", SP, "1/2/2020">> ELSE <<"entered">>)
    \o <<NL>>

\* --- HTML bodies ----------------------------------------------------------

DescrKinds == {"none", "direct", "fallback"}
DocKinds   == {"nocell", "nodoc", "text12", "a12", "adoc", "a12pages"}
CaseAKinds == {"none", "nonce", "caseId"}

DocketText == <<"ORDER", SP, SP, "granting", SP, "motion", NL>>

NDA_BOUNDARY == <<"Notice will be electronically mailed to:">>

DocAnchors(doc) ==
    CASE doc \in {"nocell", "nodoc", "text12"} -> <<>>
      [] doc = "a12"                         -> <<Doc1Url>>
      [] doc \in {"adoc", "a12pages"}        -> <<Doc1UrlBare>>

\* One docket table of an HTML body, as the answers to the XPath queries the
\* code puts to it.
Table(i, descr, doc, casea) == [
    case_name_td   |-> CaseNameOf(i),
    case_name_p    |-> <<>>,
    \* the anchors in the sibling cell of "Case Number:"
    case_number_a  |->
        IF casea = "none" THEN <<>>
        ELSE << [text |-> DocketNoOf(i) \o <<"-", "SY">>,
                 href |-> IF casea = "nonce" THEN NonceUrl ELSE CaseIdUrl] >>,
    \* the anchors in a paragraph of that cell
    case_number_p_a |-> <<>>,
    \* the text nodes the four NEF description paths select
    descr_paths    |->
        CASE descr = "none"     -> << <<>>, <<>>, <<>>, <<>> >>
          [] descr = "direct"   -> << <<DocketText>>, <<>>, <<>>, <<>> >>
          [] descr = "fallback" -> << <<<<SP>>, <<NL>>>>, <<>>, <<DocketText>>, <<>> >>,
    \* the text nodes that follow "Docket Text:" (the NDA description path)
    descr_following |->
        CASE descr = "none"     -> <<>>
          [] descr = "direct"   -> <<DocketText, NDA_BOUNDARY, <<"John", SP, "Doe">> >>
          [] descr = "fallback" -> << <<SP>>, NDA_BOUNDARY, <<"John", SP, "Doe">> >>,
    \* the text of the sibling cell of "Document Number:", or None without one
    doc_number_td  |->
        CASE doc = "nocell"   -> None
          [] doc = "nodoc"    -> <<"No document attached">>
          [] doc = "text12"   -> <<SP, "12", SP>>
          [] doc = "a12"      -> <<"12">>
          [] doc = "adoc"     -> <<"doc">>
          [] doc = "a12pages" -> <<"12", "(", "4 pages", ")">>,
    \* the hrefs of the anchors in the sibling cell of "Document Number:"
    doc_number_a   |-> DocAnchors(doc),
    \* the hrefs of the anchors in the sibling cell of "Document(s):"
    documents_a    |-> DocAnchors(doc) ]

HtmlContents ==
    [n : 0..MaxTables, descr : DescrKinds, doc : DocKinds, casea : CaseAKinds]

\* The parsed document of an HTML body.
HtmlDoc(nda, filed, err, c) == [
    kind   |-> "html",
    text   |-> Preamble(nda, filed, err),
    tables |-> [i \in 1..c.n |-> Table(i, c.descr, c.doc, c.casea)],
    \* the text nodes that follow "Document Description: " in the footer
    footer |-> IF nda THEN << <<"Motion", "_", "to", "_", "Dismiss">> >> ELSE <<>>,
    \* the <strong> nodes that hold "Document description:"
    doc_descriptions |-> IF c.doc = "a12pages" THEN 2 ELSE 1,
    \* the siblings that follow <b>Notice has been electronically mailed to
    nef_texts  |-> IF nda THEN <<>>
                   ELSE << <<NL, "John", SP, "Doe", SP, SP>>, <<",", SP>>, <<NL, "Ann", SP, "Roe", SP>>, <<NL>> >>,
    nef_links  |-> IF nda THEN <<>> ELSE << <<"jd@x.com">>, <<"jd2@x.com">>, <<"ar@y.org">> >>,
    nef_parent |-> IF nda THEN <<>>
                   ELSE <<"Notice has been", SP, "electronically mailed to:", NL,
                          "John", SP, "Doe", SP, SP, "jd@x.com", ",", SP, "jd2@x.com",
                          NL, SP, "Ann", SP, "Roe", SP, "ar@y.org", SP, NL>>
                        \o DocketNoOf(1)
                        \o <<SP, "Notice has been", SP, "delivered by other means to:">>,
    \* the text nodes that follow <strong>Notice will be electronically mailed to
    nda_texts  |-> IF nda THEN << <<NL, "John", SP, "Doe", ",", SP, "-">>, <<SP, "jd@x.com", NL>> >>
                   ELSE <<>>,
    \* the text nodes that follow <b>Notice will be electronically mailed to
    will_texts |-> <<>> ]

\* --- plain-text bodies -----------------------------------------------------

\* The most "Case Name:" lines a plain-text body holds.
MaxCaseLines == 2

PlainDescrKinds == {"none", "blank", "text"}
PlainDocKinds   == {"none", "empty", "No document attached", "12", "doc"}
PlainUrlKinds   == {"none", "case", "both"}

\* What follows the label "Case Name:" on its line: a name, or blanks only.
PlainNameKinds  == {"text", "blank"}

RECURSIVE CaseNameLines(_, _, _)
CaseNameLines(i, n, name) ==
    IF i > n THEN <<>>
    ELSE <<"Case Name:", SP>> \o (IF name = "text" THEN CaseNameOf(i) ELSE <<>>) \o <<NL>>
         \o CaseNameLines(i + 1, n, name)

PlainContents ==
    [ncase : 0..MaxCaseLines, name : PlainNameKinds, descr : PlainDescrKinds, doc : PlainDocKinds,
     urls : PlainUrlKinds]

\* The text of a plain-text body.
PlainText(nda, filed, err, c) ==
    Preamble(nda, filed, err)
    \o CaseNameLines(1, c.ncase, c.name)
    \o <<"Case Number:", SP>> \o DocketNoOf(1) \o <<"-", "SY">>
    \o (IF c.urls = "none" THEN <<>> ELSE <<SP>> \o NonceUrl) \o <<NL>>
    \o (CASE c.doc = "none"  -> <<>>
          [] c.doc = "empty" -> <<"Document Number:", SP, NL>>
          [] OTHER           -> <<"Document Number:", SP, c.doc, SP, NL>>)
    \o (CASE c.descr = "none"  -> <<>>
          [] c.descr = "blank" -> <<"Docket Text:", SP, NL>>
          [] c.descr = "text"  -> <<"Docket Text:", NL>> \o DocketText)
    \o <<"The following document", "(s) are associated with this transaction:", NL,
         "Document description:", "Main Document", NL>>
    \o (IF c.urls = "both"
        THEN <<"To", SP, "view the document:", NL>> \o Doc1Url \o <<NL>>
        ELSE <<>>)
    \o <<"Notice has been", SP, "electronically mailed to:", NL,
         "John", SP, "Doe", NL, "jd@x.com", NL>>

\* The parsed document of a plain-text body.
PlainDoc(nda, filed, err, c) == [
    kind   |-> "plain",
    text   |-> PlainText(nda, filed, err, c),
    tables |-> <<>>,
    footer |-> <<>>,
    doc_descriptions |-> 0,
    nef_texts  |-> <<>>,
    nef_links  |-> <<>>,
    nef_parent |-> <<>>,
    nda_texts  |-> <<>>,
    will_texts |-> <<>> ]

\* --- MIME messages -----------------------------------------------------------

Bodies(err) ==
    {HtmlDoc(nda, filed, err, c) : nda \in BOOLEAN, filed \in BOOLEAN, c \in HtmlContents}
    \cup
    {PlainDoc(nda, filed, err, c) : nda \in BOOLEAN, filed \in BOOLEAN, c \in PlainContents}

ContentTypeOf(body) == IF body.kind = "html" THEN "text/html" ELSE "text/plain"

NoTree == [kind |-> "None", text |-> <<>>, tables |-> <<>>, footer |-> <<>>,
           doc_descriptions |-> 0, nef_texts |-> <<>>, nef_links |-> <<>>,
           nef_parent |-> <<>>, nda_texts |-> <<>>, will_texts |-> <<>>]

\* A part of a message: its content type, its Content-Disposition header and
\* its decoded payload.
TextPart(body) == [ctype |-> ContentTypeOf(body), maintype |-> "text",
                   dispo |-> <<"None">>, body |-> body]
AttachedPart(body) == [ctype |-> ContentTypeOf(body), maintype |-> "text",
                       dispo |-> <<"attachment", ";", SP, "filename=notice.txt">>, body |-> body]
ImagePart      == [ctype |-> "image/png", maintype |-> "image",
                   dispo |-> <<"inline">>, body |-> NoTree]
\* The multipart container, which message.walk() yields first.
Container      == [ctype |-> "multipart/mixed", maintype |-> "multipart",
                   dispo |-> <<"None">>, body |-> NoTree]

\* A body every extraction step succeeds on, of each content type.
GoodHtml  == HtmlDoc(FALSE, TRUE, FALSE, [n |-> 1, descr |-> "direct", doc |-> "a12", casea |-> "nonce"])
GoodPlain == PlainDoc(FALSE, TRUE, FALSE, [ncase |-> 1, name |-> "text", descr |-> "text", doc |-> "12", urls |-> "both"])

Subjects == {None, SubjectLine, SubjectLine2}

\* Messages of one part.
SingleEmails ==
    {[subject |-> su, multipart |-> FALSE, parts |-> <<TextPart(b)>>] :
        su \in Subjects, b \in Bodies(FALSE)}

\* Messages that hold one of ERROR_STRINGS.
ErrorEmails ==
    {[subject |-> SubjectLine, multipart |-> FALSE, parts |-> <<TextPart(b)>>] :
        b \in {HtmlDoc(FALSE, TRUE, TRUE, [n |-> 1, descr |-> "direct", doc |-> "a12", casea |-> "nonce"]),
               PlainDoc(FALSE, TRUE, TRUE, [ncase |-> 1, name |-> "text", descr |-> "text", doc |-> "12", urls |-> "both"])}}

\* Multipart messages, with and without an image among the parts, and with
\* the same notification as HTML and as plain text, in both orders.
MultipartEmails ==
    {[subject |-> SubjectLine, multipart |-> TRUE, parts |-> ps] :
        ps \in { <<TextPart(GoodHtml), ImagePart>>,
                 <<TextPart(GoodPlain), TextPart(GoodHtml)>>,
                 <<TextPart(GoodHtml), TextPart(GoodPlain)>>,
                 <<ImagePart, TextPart(GoodPlain)>>,
                 <<TextPart(GoodHtml)>>,
                 <<TextPart(GoodPlain)>>,
                 <<ImagePart>> }}

\* A message whose only part is a text file sent as an attachment.
AttachmentEmails ==
    {[subject |-> SubjectLine, multipart |-> FALSE, parts |-> <<AttachedPart(GoodPlain)>>]}

Emails == SingleEmails \cup ErrorEmails \cup MultipartEmails \cup AttachmentEmails

\* ------------------------------------------------------------------------
\* Exceptions.
\* ------------------------------------------------------------------------

Exc(type, msg) == [type |-> type, msg |-> msg]

Ok(v)     == [ok |-> TRUE, val |-> v]
Raise(e)  == [ok |-> FALSE, exc |-> e]

\* ------------------------------------------------------------------------
\* Regular expressions of the code, on atoms.
\* ------------------------------------------------------------------------

\* The end of the line that holds position i: the place of the next line
\* break at or after i, or one past the end of the text.
LineEnd(s, i) == MinOr({j \in i..Len(s) : s[j] = NL}, Len(s) + 1)

\* re.findall(label + "(.*)", s): the rest of the line after every
\* occurrence of the label, a match consuming its line to the end.
RECURSIVE FindallRestOfLine(_, _, _)
\* The matches from the label at i (0: none) on, its line ending at e.
RestOfLineAt(s, label, i, e) ==
    IF i = 0 THEN <<>>
    ELSE <<SubSeq(s, i + 1, e - 1)>> \o FindallRestOfLine(s, label, e)

RestOfLineFrom(s, label, i) == RestOfLineAt(s, label, i, LineEnd(s, i + 1))

FindallRestOfLine(s, label, from) == RestOfLineFrom(s, label, Find(s, <<label>>, from))

\* re.split(r"\(|\s", s)[0]: the text before the first "(" or white space.
FirstWord(s) ==
    SubSeq(s, 1, MinOr({i \in 1..Len(s) : s[i] = "(" \/ IsSpace(s[i])}, Len(s) + 1) - 1)

\* The text with its docket trace kept.
KeepDocketTrace(s) == s

\* re.sub(r"^-.*?\s", "", s): a leading "-" and everything up to and
\* including the first white space of its line is removed.
StripDocketTrace(s) ==
    IF s = <<>> \/ Head(s) # "-" THEN s
    ELSE SubSeq(s, MinOr({i \in 2..Len(s) : IsSpace(s[i])}, 0) + 1, Len(s))

\* Python's s.split() without a separator (also s.split(None)): the words
\* between runs of white space.
RECURSIVE SplitWhitespace(_)
\* The words of t, which starts with a word that ends before e.
WordsAt(t, e) == <<SubSeq(t, 1, e - 1)>> \o SplitWhitespace(SubSeq(t, e, Len(t)))

\* The words of t, which does not start with white space.
Words(t) ==
    IF t = <<>> THEN <<>>
    ELSE WordsAt(t, MinOr({i \in 1..Len(t) : IsSpace(t[i])}, Len(t) + 1))

SplitWhitespace(s) == Words(lstrip(s))

\* Python's s.replace(old, new).
RECURSIVE replace(_, _, _)
\* s with `old` replaced, its first occurrence being at i (0: none).
ReplaceAt(s, old, new, i) ==
    IF i = 0 THEN s
    ELSE SubSeq(s, 1, i - 1) \o new
         \o replace(SubSeq(s, i + Len(old), Len(s)), old, new)

replace(s, old, new) == ReplaceAt(s, old, new, Find(s, old, 1))

\* The atom at place i of the link, as a string (0: None).
AtomAt(url, i) == IF i = 0 THEN None ELSE <<url[i]>>

\* The atom that follows `marker` in a link, as a string, or None.
AfterAtom(url, marker) ==
    AtomAt(url, MinOr({i + 1 : i \in {j \in 1..(Len(url) - 1) : url[j] = marker}}, 0))

\* ------------------------------------------------------------------------
\* Collaborators: BaseReport, BaseDocketReport, pacer.utils, string_utils.
\* ------------------------------------------------------------------------

\* BaseReport._xpath_text_0: the trimmed text of the first node, or "".
_xpath_text_0(texts) == IF texts = <<>> THEN <<>> ELSE strip(texts[1])

IsDocketNumberAtom(a) == \E i \in 1..Len(DocketNumberAtoms) : DocketNumberAtoms[i] = a

\* re.search of the docket number pattern in s: the place of the match, or 0.
SearchDocketNumber(s) == MinOr({i \in 1..Len(s) : IsDocketNumberAtom(s[i])}, 0)

RECURSIVE _parse_docket_number_strs(_)
\* The rest of the loop, the pattern matching the first candidate at i.
DocketNumberAt(strs, i) ==
    IF i = 0 THEN _parse_docket_number_strs(Tail(strs)) ELSE <<Head(strs)[i]>>

\* BaseDocketReport._parse_docket_number_strs: the first docket number
\* found in the candidate strings, or None.
_parse_docket_number_strs(strs) ==
    IF strs = <<>> THEN None
    ELSE DocketNumberAt(strs, SearchDocketNumber(Head(strs)))

DateAtoms == {"1/2/2020"}

\* string_utils.convert_date_string.
convert_date_string(s) ==
    IF Len(s) = 1 /\ s[1] \in DateAtoms
    THEN Ok(s)
    ELSE Raise(Exc("ParserError", <<"String does not contain a date: ">> \o s))

get_pacer_doc_id_from_doc1_url(url)          == AfterAtom(url, "https://ecf/doc1/")
get_pacer_magic_num_from_doc1_url(url, appl) == AfterAtom(url, "&magic_num=")
get_pacer_case_id_from_doc1_url(url)         == AfterAtom(url, "?caseid=")
get_pacer_seq_no_from_doc1_url(url)          == AfterAtom(url, "&de_seq_num=")
get_pacer_case_id_from_nonce_url(url)        == AfterAtom(url, "https://ecf/cgi-bin/DktRpt.pl?")

\* ------------------------------------------------------------------------
\* NotificationEmail.
\* ------------------------------------------------------------------------

\* str.endswith("b") on a court id.
EndsWithB(court_id) == court_id # <<>> /\ Last(court_id) = "b"

\* NotificationEmail.__init__.
__init__(court_id) == [
    court_id       |-> court_id,
    content_type   |-> "None",
    appellate      |-> "None",
    image_attached |-> FALSE,
    docket_numbers |-> <<>>,
    subject        |-> None,
    case_names     |-> <<>>,
    is_bankruptcy  |-> EndsWithB(court_id),
    \* BaseReport.__init__
    is_valid       |-> TRUE,
    tree           |-> NoTree ]

text_content(o) == o.tree.text

\* _is_appellate without its test for None: the flag as it is.
AppellateByFlagOnly(o) == o.appellate = "True"

\* The value _is_appellate returns on object o.
_is_appellate(o) ==
    IF o.appellate = "None"
    THEN Contains(text_content(o), <<NDA_MARKER>>)
    ELSE o.appellate = "True"

\* Object o after a call of _is_appellate that stores nothing.
FlagLeftAlone(o) == o

\* Object o after a call of _is_appellate: the value is cached.
AfterIsAppellate(o) ==
    IF o.appellate = "None"
    THEN [o EXCEPT !.appellate = IF _is_appellate(o) THEN "True" ELSE "False"]
    ELSE o

\* `if self.appellate`.
AppellateSet(o) == o.appellate = "True"

\* The name to cache and the name to return, the name found being case_name.
CleanCaseName(case_name) ==
    [cache |-> clean_string(case_name),
     name  |-> clean_string(harmonize(case_name))]

\* The name in the cell, else the name in the paragraph, else the default.
FirstCaseName(td, p) ==
    IF Truthy(td) THEN td
    ELSE IF Truthy(p) THEN p
    ELSE <<"Unknown Case Title">>

\* _get_case_name: the name to cache and the name to return.
_get_case_name(o, node) ==
    Ok(CleanCaseName(FirstCaseName(_xpath_text_0(<<node.case_name_td>>),
                                   _xpath_text_0(<<node.case_name_p>>))))

MultiDocketPlainError(o) ==
    Exc("NotImplementedError",
        <<"Received a potential multi-docket text/plain notification. ",
          "This is probably our chance to add support for it. ",
          "court: ">> \o o.court_id)

\* _get_case_name_plain picking the first of several matches.
FirstCaseNamePlain(o, find_case) ==
    Ok(CleanCaseName(IF find_case # <<>> THEN find_case[1]
                     ELSE <<"Unknown Case Title">>))

\* _get_case_name_plain once the expression has found find_case.
CaseNamePlainOf(o, find_case) ==
    IF Len(find_case) > 1
    THEN Raise(MultiDocketPlainError(o))
    ELSE Ok(CleanCaseName(IF find_case # <<>> THEN find_case[1]
                          ELSE <<"Unknown Case Title">>))

_get_case_name_plain(o) ==
    CaseNamePlainOf(o, FindallRestOfLine(text_content(o), "Case Name:", 1))

AnchorTexts(anchors) == [i \in 1..Len(anchors) |-> anchors[i].text]

\* `if not docket_number`: the second list of anchors is tried.
OrElseParse(docket_number, strs) ==
    IF Truthy(docket_number) THEN docket_number
    ELSE _parse_docket_number_strs(strs)

_get_docket_number(o, node) ==
    IF _is_appellate(o)
    THEN _xpath_text_0(AnchorTexts(node.case_number_a))
    ELSE OrElseParse(_parse_docket_number_strs(AnchorTexts(node.case_number_a)),
                     AnchorTexts(node.case_number_p_a))

_get_docket_number_plain(o) ==
    _parse_docket_number_strs(FindallRestOfLine(text_content(o), "Case Number:", 1))

\* The match that starts at i (0: no match).
FiledOnAt(s, i) ==
    IF i = 0 THEN None
    ELSE IF i + 4 <= Len(s) /\ s[i + 4] \in DateAtoms
         THEN SubSeq(s, i, i + 4)
         ELSE SubSeq(s, i, i + 3)

\* re.search(r"filed\son\s([\d|\/]*)", s): the whole match, or None.
SearchFiledOn(s) == FiledOnAt(s, Find(s, <<"filed", SP, "on", SP>>, 1))

NoneNotSubscriptable == Exc("TypeError", <<"'NoneType' object is not subscriptable">>)

\* _get_date_filed once the expression has found date_filed.
DateFiledOf(date_filed) ==
    IF date_filed = None
    THEN Raise(NoneNotSubscriptable)
    ELSE convert_date_string(replace(date_filed, <<"filed", SP, "on", SP>>, <<>>))

_get_date_filed(o) == DateFiledOf(SearchFiledOn(clean_string(text_content(o))))

ListIndexError == Exc("IndexError", <<"list index out of range">>)

\* _get_document_number without its test for the two sentinels.
DocumentNumberNoSentinel(text_number) == Ok(FirstWord(text_number))

\* _get_document_number on the cleaned text of the cell.
DocumentNumberOf(text_number) ==
    IF text_number = <<"No document attached">> \/ text_number = <<>>
    THEN Ok(None)
    ELSE Ok(FirstWord(text_number))

_get_document_number(o, node) ==
    IF node.doc_number_td = None
    THEN Raise(ListIndexError)
    ELSE DocumentNumberOf(clean_string(node.doc_number_td))

\* The first match, cleaned, or None for no match.
FirstCleanOrNone(found) == IF found # <<>> THEN clean_string(found[1]) ELSE None

_get_document_number_plain(o) ==
    FirstCleanOrNone(FindallRestOfLine(text_content(o), "Document Number:", 1))

\* The link of the first anchor, or None.
FirstHref(hrefs) == IF hrefs = <<>> THEN None ELSE hrefs[1]

\* _get_doc1_anchor followed by anchor.xpath("./@href")[0]: the link of
\* the document, or None.
_get_doc1_anchor(o, node) ==
    FirstHref(IF _is_appellate(o) THEN node.documents_a ELSE node.doc_number_a)

AnchorHrefs(anchors) == [i \in 1..Len(anchors) |-> anchors[i].href]

_get_case_anchor(o, node) ==
    FirstHref(AnchorHrefs(node.case_number_a \o node.case_number_p_a))

_get_case_id_from_case_url(o, case_url) ==
    IF AppellateSet(o)
    THEN AfterAtom(case_url, "caseId=")
    ELSE get_pacer_case_id_from_nonce_url(case_url)

DescriptionError(o) ==
    Exc("Exception", <<"Can't get docket entry description, court: ">> \o o.court_id)

\* The inner loop of _get_description: the parts of one path are added to
\* the description; for an NDA the boundary marker ends the loop.
RECURSIVE AddParts(_, _, _)
AddParts(description, parts, appellate) ==
    IF parts = <<>> THEN description
    ELSE IF appellate /\ Head(parts) = NDA_BOUNDARY THEN description
    ELSE AddParts(description \o Head(parts), Tail(parts), appellate)

RECURSIVE TryPaths(_, _, _, _)
\* The outer loop after one path gave the cleaned description d.
AfterPath(o, d, paths, appellate) ==
    IF Truthy(d) THEN Ok(d) ELSE TryPaths(o, d, Tail(paths), appellate)

TryPaths(o, description, paths, appellate) ==
    IF paths = <<>> THEN Raise(DescriptionError(o))
    ELSE IF Head(paths) = <<>>
         THEN TryPaths(o, description, Tail(paths), appellate)
         ELSE AfterPath(o, clean_string(AddParts(description, Head(paths), appellate)),
                        paths, appellate)

_get_description(o, node) ==
    IF _is_appellate(o)
    THEN TryPaths(o, <<>>, <<node.descr_following>>, TRUE)
    ELSE TryPaths(o, <<>>, node.descr_paths, FALSE)

\* Python's s.splitlines().
RECURSIVE splitlines(_)
\* The lines of s, whose first line ends before e.
LinesAt(s, e) == <<SubSeq(s, 1, e - 1)>> \o splitlines(SubSeq(s, e + 1, Len(s)))

splitlines(s) == IF s = <<>> THEN <<>> ELSE LinesAt(s, LineEnd(s, 1))

PlainDescriptionError(o) ==
    Exc("Exception", <<"Can't get docket entry description for court: ">> \o o.court_id)

DescrTerminators == {"The following document", "electronically mailed to:"}

\* The group between the label at i and the first terminator at j (0: none).
DescrBetween(s, i, j) == IF i = 0 \/ j = 0 THEN <<>> ELSE <<SubSeq(s, i + 1, j - 1)>>

DescrFrom(s, i) ==
    DescrBetween(s, i, MinOr({j \in (i + 1)..Len(s) : s[j] \in DescrTerminators}, 0))

\* The group "descr" of the regular expression of _get_description_plain,
\* as a one-element list, or the empty list without a match.
SearchDescr(s) == DescrFrom(s, Find(s, <<"Docket Text:">>, 1))

\* The loop over the lines without its break.
RECURSIVE JoinAllLines(_, _)
JoinAllLines(description, lines) ==
    IF lines = <<>> THEN description
    ELSE JoinAllLines(description \o <<SP>> \o Head(lines), Tail(lines))

\* The loop of _get_description_plain over the lines of the group.
RECURSIVE JoinLines(_, _)
JoinLines(description, lines) ==
    IF lines = <<>> THEN description
    ELSE IF Contains(Head(lines), <<"Notice has been">>) THEN description
    ELSE JoinLines(description \o <<SP>> \o Head(lines), Tail(lines))

\* _get_description_plain returning the description whatever it holds.
DescriptionAsFound(o, description) == Ok(description)

\* _get_description_plain on the joined and cleaned description.
DescriptionOrRaise(o, description) ==
    IF Truthy(description) THEN Ok(description)
    ELSE Raise(PlainDescriptionError(o))

\* The description built from what the expression found.
PlainDescriptionOf(find_description) ==
    IF find_description # <<>>
    THEN clean_string(JoinLines(<<>>, splitlines(find_description[1])))
    ELSE <<>>

_get_description_plain(o) ==
    DescriptionOrRaise(o, PlainDescriptionOf(SearchDescr(text_content(o))))

\* re.findall(r"view the document:[\r\n\s]+([^\r\n]+)", s), its first match
\* as a one-element list, or the empty list.
RECURSIVE FindViewDocument(_, _)
\* The match after the label at i: white space, then the rest of the line.
ViewDocumentAfter(s, i, rest, after) ==
    IF Len(after) < Len(rest) /\ after # <<>>
    THEN <<SubSeq(after, 1, LineEnd(after, 1) - 1)>>
    ELSE FindViewDocument(s, i + 1)

ViewDocumentRest(s, i, rest) == ViewDocumentAfter(s, i, rest, lstrip(rest))

ViewDocumentAt(s, i) ==
    IF i = 0 THEN <<>> ELSE ViewDocumentRest(s, i, SubSeq(s, i + 1, Len(s)))

FindViewDocument(s, from) == ViewDocumentAt(s, Find(s, <<"view the document:">>, from))

UrlStartAtoms == {"https://ecf/doc1/", "https://ecf/cgi-bin/DktRpt.pl?",
                  "https://ecf/n/beam/servlet/TransportRoom?"}

\* The end of the run of atoms that are not white space and start at i.
WordEnd(s, i) == MinOr({j \in i..Len(s) : IsSpace(s[j])}, Len(s) + 1) - 1

\* The places on the line of the label at i where " http" starts.
UrlCands(s, i) == {j \in (i + 2)..(LineEnd(s, i) - 1) :
                      /\ j + 1 <= Len(s)
                      /\ s[j] = SP
                      /\ s[j + 1] \in UrlStartAtoms}

\* The link that follows the space at j0 (0: no match).
UrlAfter(s, j0) == IF j0 = 0 THEN None ELSE SubSeq(s, j0 + 1, WordEnd(s, j0 + 1))

\* The first label followed by a link on its line being at i (0: none).
CaseUrlAt(s, i) == UrlAfter(s, IF i = 0 THEN 0 ELSE Min(UrlCands(s, i)))

\* re.search(r"Case Number: .*? (https?:\/\/\S+)", s): group 1, or None.
SearchCaseUrl(s) ==
    CaseUrlAt(s, MinOr({i \in 1..Len(s) :
                           MatchesAt(s, <<"Case Number:", SP>>, i) /\ UrlCands(s, i) # {}}, 0))

\* ------------------------------------------------------------------------
\* Short descriptions.
\* ------------------------------------------------------------------------

\* The result of a step that may log: a value or an exception, and the
\* fingerprints of the errors it logged.
OkL(v, log)    == [ok |-> TRUE, val |-> v, log |-> log]
RaiseL(e, log) == [ok |-> FALSE, exc |-> e, log |-> log]

EmptySeparator == Exc("ValueError", <<"empty separator">>)

\* s.split(sep) as Python evaluates it: white-space splitting for None, an
\* error for the empty separator.
py_split(s, sep) ==
    IF sep = None THEN Ok(SplitWhitespace(s))
    ELSE IF sep = <<>> THEN Raise(EmptySeparator)
    ELSE Ok(split(s, sep))

\* Python's len() of a string: its characters.
RECURSIVE len(_)
len(s) == IF s = <<>> THEN 0 ELSE Len(Head(s)) + len(Tail(s))

\* s.rsplit("-", 1)[0].
BeforeLastDash(s) == SubSeq(s, 1, MaxOr({i \in 1..Len(s) : s[i] = "-"}, Len(s) + 1) - 1)

ChapterAtoms == {"Ch7", "Ch11", "Ch13"}

\* re.sub(r"\bCh\d+\b", "", s).
StripChapter(s) == SelectSeq(s, LAMBDA a : a \notin ChapterAtoms)

MultiDocketFingerprint(o) == o.court_id \o <<"-not-parsing-multi-docket-short-description">>

\* A fingerprint that names the court only.
CourtOnlyFingerprint(o) == o.court_id

UnknownCourtFingerprint(o) == o.court_id \o <<"-not-parsing-short-description">>

cacb == <<"c", "a", "c", "b">>
ctb  == <<"c", "t", "b">>
cob  == <<"c", "o", "b">>
njb  == <<"n", "j", "b">>
nysb == <<"n", "y", "s", "b">>
pawb == <<"p", "a", "w", "b">>

\* The last piece of a split, with the docket trace removed, or its error;
\* the split of a blank text on None has no piece, and [-1] raises.
LastPiece(sp) ==
    IF ~sp.ok THEN RaiseL(sp.exc, <<>>)
    ELSE IF sp.val = <<>> THEN RaiseL(ListIndexError, <<>>)
    ELSE OkL(StripDocketTrace(Last(sp.val)), <<>>)

\* The branch of njb: the text after the last dash is dropped as well.
LastPieceBeforeDash(sp) ==
    IF ~sp.ok THEN RaiseL(sp.exc, <<>>)
    ELSE IF sp.val = <<>> THEN RaiseL(ListIndexError, <<>>)
    ELSE OkL(StripDocketTrace(BeforeLastDash(Last(sp.val))), <<>>)

\* The branch of nysb after its second split.
LastPieceNoChapter(sp) ==
    IF ~sp.ok THEN RaiseL(sp.exc, <<>>)
    ELSE IF sp.val = <<>> THEN RaiseL(ListIndexError, <<>>)
    ELSE OkL(StripDocketTrace(StripChapter(Last(sp.val))), <<>>)

\* The branch of nysb: the text before the case name, "Re:" removed, is
\* split on the docket number.
BeforeCaseName(sp, docket_number) ==
    IF ~sp.ok THEN RaiseL(sp.exc, <<>>)
    ELSE LastPieceNoChapter(py_split(replace(sp.val[1], <<"Re:">>, <<>>), docket_number))

\* The branch of pawb: the text after the case name.
AfterCaseName(sp) == IF ~sp.ok THEN RaiseL(sp.exc, <<>>) ELSE OkL(Last(sp.val), <<>>)

_parse_bankruptcy_short_description(o, subject) ==
    IF Len(o.docket_numbers) > 1
    THEN OkL(<<>>, <<MultiDocketFingerprint(o)>>)
    ELSE IF o.docket_numbers = <<>> \/ o.case_names = <<>>
    THEN RaiseL(ListIndexError, <<>>)
    ELSE IF o.court_id \in {cacb, ctb, cob}
    THEN LastPiece(py_split(subject, o.docket_numbers[1]))
    ELSE IF o.court_id = njb
    THEN LastPieceBeforeDash(py_split(subject, o.docket_numbers[1]))
    ELSE IF o.court_id = nysb
    THEN BeforeCaseName(py_split(subject, o.case_names[1]), o.docket_numbers[1])
    ELSE IF o.court_id = pawb
    THEN AfterCaseName(py_split(subject, o.case_names[1]))
    ELSE OkL(<<>>, <<UnknownCourtFingerprint(o)>>)

QUOTE == "\""

\* The text between the quote at i0 and the next quote (0: no match).
QuotedAt(s, i0) ==
    IF i0 = 0 THEN <<>>
    ELSE <<SubSeq(s, i0 + 1, Min({j \in (i0 + 1)..Len(s) : s[j] = QUOTE}) - 1)>>

\* re.search(r'"(.*?)"', s): group 1 as a one-element list, or the empty
\* list without a match.
SearchQuoted(s) ==
    QuotedAt(s, MinOr({i \in 1..Len(s) :
                          /\ s[i] = QUOTE
                          /\ \E j \in (i + 1)..(LineEnd(s, i) - 1) : s[j] = QUOTE}, 0))

\* The description in the footer: underscores are spaces, and the name of
\* the main document is no description.
FooterDescription(spaced) == IF spaced = <<"Main", SP, "document">> THEN <<>> ELSE spaced

short_description_footer(o) ==
    FooterDescription(replace(IF o.tree.footer = <<>> THEN <<>> ELSE o.tree.footer[1],
                              <<"_">>, <<SP>>))

\* The first quoted text, or the empty string.
FirstOrEmpty(match) == IF match # <<>> THEN match[1] ELSE <<>>

\* max with the last of the largest.
MaxByLenLast(a, b) == IF len(b) >= len(a) THEN b ELSE a

\* max(subject, footer, key=len): the first of the largest.
MaxByLen(a, b) == IF len(a) >= len(b) THEN a ELSE b

\* _parse_appellate_short_description after the split on the case name.
AppellateShortOf(o, sp) ==
    IF ~sp.ok THEN Raise(sp.exc)
    ELSE Ok(MaxByLen(FirstOrEmpty(SearchQuoted(Last(sp.val))),
                     short_description_footer(o)))

_parse_appellate_short_description(o, subject) ==
    IF o.case_names = <<>> THEN Raise(ListIndexError)
    ELSE AppellateShortOf(o, py_split(subject, o.case_names[1]))

UnboundLocal(name) ==
    Exc("UnboundLocalError", <<"local variable referenced before assignment: ", name>>)

\* The loop of _get_short_description over the cached case names: the last
\* value of subject_split_case_name (the empty list when the loop never ran).
RECURSIVE SplitOnCaseNames(_, _, _)
\* The loop without its break: the split on the last name is kept.
AfterSplitNoBreak(subject, names, sp) ==
    IF ~sp.ok THEN sp
    ELSE SplitOnCaseNames(subject, Tail(names), sp.val)

\* The loop after the split sp on the first of the names.
AfterSplit(subject, names, sp) ==
    IF ~sp.ok THEN sp
    ELSE IF Len(sp.val) > 1 THEN sp
    ELSE SplitOnCaseNames(subject, Tail(names), sp.val)

SplitOnCaseNames(subject, names, sofar) ==
    IF names = <<>> THEN Ok(sofar)
    ELSE AfterSplit(subject, names, py_split(subject, Head(names)))

\* The short description of an NDA, cleaned.
CleanAppellate(r) == IF r.ok THEN OkL(clean_string(r.val), <<>>) ELSE RaiseL(r.exc, <<>>)

\* The short description of a bankruptcy notification, cleaned.
CleanBankruptcy(r) == IF r.ok THEN OkL(clean_string(r.val), r.log) ELSE r

\* _get_short_description on the cleaned subject, after the loop over the
\* case names.
ShortDescriptionOf(o, subject, sp) ==
    IF ~sp.ok
    THEN RaiseL(sp.exc, <<>>)
    ELSE IF AppellateSet(o)
    THEN CleanAppellate(_parse_appellate_short_description(o, subject))
    ELSE IF o.is_bankruptcy
    THEN CleanBankruptcy(_parse_bankruptcy_short_description(o, subject))
    ELSE IF sp.val = <<>>
    THEN RaiseL(UnboundLocal("subject_split_case_name"), <<>>)
    ELSE OkL(clean_string(strip(Last(sp.val))), <<>>)

ShortDescriptionOn(o, subject) ==
    ShortDescriptionOf(o, subject, SplitOnCaseNames(subject, o.case_names, <<>>))

_get_short_description(o) ==
    IF ~Truthy(o.subject) THEN OkL(<<>>, <<>>)
    ELSE ShortDescriptionOn(o, clean_string(o.subject))

\* ------------------------------------------------------------------------
\* Docket entries.
\* ------------------------------------------------------------------------

IsPlain(o) == o.content_type = "text/plain"

\* The first match, or None for no match.
FirstOrNone(found) == IF found # <<>> THEN found[1] ELSE None

\* The links of an entry of an HTML body, its document number being read.
HtmlLinks(o, node, number) ==
    IF ~number.ok THEN number
    ELSE Ok([document_url    |-> _get_doc1_anchor(o, node),
             document_number |-> number.val,
             case_url        |-> _get_case_anchor(o, node)])

\* The document link, the document number and the case link of an entry,
\* read after its description.
EntryLinks(o, node) ==
    IF IsPlain(o)
    THEN Ok([document_url    |-> FirstOrNone(FindViewDocument(text_content(o), 1)),
             document_number |-> _get_document_number_plain(o),
             case_url        |-> SearchCaseUrl(text_content(o))])
    ELSE HtmlLinks(o, node, IF _is_appellate(o) THEN Ok(None)
                            ELSE _get_document_number(o, node))

\* `if document_url is not None` (lines 484-499).
FromDocumentUrl(o, entry) ==
    IF entry.document_url # None
    THEN [entry EXCEPT
            !.pacer_doc_id    = get_pacer_doc_id_from_doc1_url(entry.document_url),
            !.pacer_magic_num = get_pacer_magic_num_from_doc1_url(entry.document_url, o.appellate),
            !.pacer_case_id   = IF ~_is_appellate(o)
                                THEN get_pacer_case_id_from_doc1_url(entry.document_url)
                                ELSE None,
            !.pacer_seq_no    = IF ~_is_appellate(o)
                                THEN get_pacer_seq_no_from_doc1_url(entry.document_url)
                                ELSE None]
    ELSE entry

\* The entry without the fallback on the case link.
NoCaseUrlFallback(o, entry, case_url) == entry

\* `if not entries[0]["pacer_case_id"] and case_url` (lines 501-505).
FromCaseUrl(o, entry, case_url) ==
    IF ~Truthy(entry.pacer_case_id) /\ Truthy(case_url)
    THEN [entry EXCEPT !.pacer_case_id = _get_case_id_from_case_url(o, case_url)]
    ELSE entry

\* The pacer identifiers of an entry (lines 484-505).
WithIdentifiers(o, entry, case_url) == FromCaseUrl(o, FromDocumentUrl(o, entry), case_url)

\* The document number kept as extracted.
KeepDoc(document_number) == document_number

\* "doc" is no document number (lines 465-469).
DiscardDoc(document_number) ==
    IF Truthy(document_number) /\ document_number = <<"doc">>
    THEN None ELSE document_number

\* _get_docket_entries taking every description for None: line 508.
EntriesOfNoDescription(o, description, links, date_filed, short) ==
    IF ~description.ok THEN RaiseL(description.exc, <<>>) ELSE OkL(<<>>, <<>>)

\* The entry built from the values read, or the first exception raised.
BuildEntries(o, description, links, date_filed, short) ==
    IF ~description.ok THEN RaiseL(description.exc, <<>>)
    ELSE IF ~links.ok THEN RaiseL(links.exc, <<>>)
    ELSE IF ~date_filed.ok THEN RaiseL(date_filed.exc, <<>>)
    ELSE IF ~short.ok THEN RaiseL(short.exc, short.log)
    ELSE OkL(<< WithIdentifiers(o,
                  [date_filed        |-> date_filed.val,
                   description       |-> description.val,
                   short_description |-> short.val,
                   document_url      |-> links.val.document_url,
                   document_number   |-> DiscardDoc(links.val.document_number),
                   pacer_doc_id      |-> None,
                   pacer_case_id     |-> None,
                   pacer_seq_no      |-> None,
                   pacer_magic_num   |-> None],
                  links.val.case_url) >>,
             short.log)

\* _get_docket_entries: the list of entries or the exception, and what was
\* logged.
_get_docket_entries(o, node) ==
    BuildEntries(o,
                 IF IsPlain(o) THEN _get_description_plain(o) ELSE _get_description(o, node),
                 EntryLinks(o, node),
                 _get_date_filed(o),
                 _get_short_description(o))

\* ------------------------------------------------------------------------
\* Attachments and recipients.
\* ------------------------------------------------------------------------

_contains_attachments(o) == ~(o.tree.doc_descriptions <= 1)

\* The group from the label at i to the terminator at j, or to the end of
\* the text (0: none).
AttachmentsBetween(s, i, j) ==
    IF i = 0 THEN <<>>
    ELSE <<SubSeq(s, i + 2, IF j # 0 THEN j - 1
                            ELSE IF s # <<>> /\ Last(s) = NL THEN Len(s) - 1
                            ELSE Len(s))>>

AttachmentsFrom(s, i) ==
    AttachmentsBetween(s, i,
        MinOr({j \in (i + 2)..Len(s) : s[j] = "electronically mailed to:"}, 0))

\* The group "attachments" of the regular expression of
\* _contains_attachments_plain, as a one-element list, or the empty list.
SearchAttachments(s) ==
    AttachmentsFrom(s,
        Find(s, <<"The following document", "(s) are associated with this transaction:">>, 1))

\* The lines of the group that describe a document.
AssociatedDocuments(lines) ==
    Cardinality({k \in 1..Len(lines) : Contains(lines[k], <<"Document description:">>)})

AttachmentLines(find_attachments) ==
    IF find_attachments = <<>> THEN <<>> ELSE splitlines(find_attachments[1])

_contains_attachments_plain(o) ==
    AssociatedDocuments(AttachmentLines(SearchAttachments(text_content(o)))) > 1

EmailAtoms == {"jd@x.com", "jd2@x.com", "ar@y.org"}

\* `"@" in s`.
HasAt(s) == \E i \in 1..Len(s) : s[i] \in EmailAtoms

\* Atoms that end with "mailed to:".
MailedToAtoms == {"electronically mailed to:", "Notice will be electronically mailed to:"}

RemoveAtom(s, a) == SelectSeq(s, LAMBDA x : x # a)

\* re.sub(r"\s{2,}|\t", " ", s).
RECURSIVE CollapseRuns(_)
CollapseRuns(s) ==
    IF s = <<>> THEN <<>>
    ELSE IF Len(s) >= 2 /\ IsSpace(s[1]) /\ IsSpace(s[2])
         THEN <<SP>> \o CollapseRuns(lstrip(s))
         ELSE <<Head(s)>> \o CollapseRuns(Tail(s))

\* re.sub(r"\s,", "", s).
RECURSIVE RemoveSpaceComma(_)
RemoveSpaceComma(s) ==
    IF s = <<>> THEN <<>>
    ELSE IF Len(s) >= 2 /\ IsSpace(s[1]) /\ s[2] = ","
         THEN RemoveSpaceComma(SubSeq(s, 3, Len(s)))
         ELSE <<Head(s)>> \o RemoveSpaceComma(Tail(s))

\* re.sub(r"^.*mailed\sto:", "", s) on a text of one line.
RemoveToMailedTo(s) ==
    SubSeq(s, MaxOr({i \in 1..Len(s) : s[i] \in MailedToAtoms}, 0) + 1, Len(s))

\* s up to place i (0: all of s).
UpTo(s, i) == IF i = 0 THEN s ELSE SubSeq(s, 1, i - 1)

\* re.sub(re.escape(end_point) + ".*$", "", s) on a text of one line.
RemoveFrom(s, end_point) ==
    UpTo(s, IF end_point = <<>> THEN 1 ELSE Find(s, end_point, 1))

RECURSIVE RemoveFromEach(_, _)
RemoveFromEach(s, end_points) ==
    IF end_points = <<>> THEN s
    ELSE RemoveFromEach(RemoveFrom(s, Head(end_points)), Tail(end_points))

\* s.strip(" ") is not what the code calls: it calls s.strip(), then
\* s.split(" "), which keeps the empty strings between two blanks.
SplitOnBlank(s) == split(s, <<SP>>)

EscapeNone == Exc("TypeError", <<"expected string or bytes-like object">>)

\* The loop of _get_email_recipients_with_links over the tokens.
RECURSIVE GroupRecipients(_, _)
\* One turn of a loop in which every token without "@" starts a recipient.
AddRecipientPartNoExtend(email_recipients, recipient_part) ==
    IF email_recipients # <<>> /\ HasAt(recipient_part)
    THEN [email_recipients EXCEPT ![Len(email_recipients)].email_addresses =
              Append(@, RemoveAtom(recipient_part, ","))]
    ELSE Append(email_recipients,
                [name |-> IF HasAt(recipient_part) THEN <<>> ELSE recipient_part,
                 email_addresses |-> IF HasAt(recipient_part)
                                     THEN <<RemoveAtom(recipient_part, ",")>> ELSE <<>>])

\* One turn of the loop: the list after the token recipient_part.
AddRecipientPart(email_recipients, recipient_part) ==
    IF email_recipients = <<>>
    THEN IF HasAt(recipient_part)
         THEN <<[name |-> <<>>,
                 email_addresses |-> <<RemoveAtom(recipient_part, ",")>>]>>
         ELSE <<[name |-> recipient_part, email_addresses |-> <<>>]>>
    ELSE IF HasAt(recipient_part)
    THEN [email_recipients EXCEPT ![Len(email_recipients)].email_addresses =
              Append(@, RemoveAtom(recipient_part, ","))]
    ELSE IF Last(email_recipients).email_addresses # <<>>
    THEN Append(email_recipients, [name |-> recipient_part, email_addresses |-> <<>>])
    ELSE [email_recipients EXCEPT ![Len(email_recipients)].name =
              @ \o <<SP>> \o recipient_part]

GroupRecipients(email_recipients, parts) ==
    IF parts = <<>> THEN email_recipients
    ELSE GroupRecipients(AddRecipientPart(email_recipients, Head(parts)), Tail(parts))

\* The substitutions of lines 711-722, in their order.
RecipientText(o, text) ==
    RemoveFromEach(RemoveToMailedTo(RemoveSpaceComma(CollapseRuns(RemoveAtom(text, NL)))),
                   o.docket_numbers)

_get_email_recipients_with_links(o, text) ==
    IF \E k \in 1..Len(o.docket_numbers) : o.docket_numbers[k] = None
    THEN Raise(EscapeNone)
    ELSE Ok(SelectSeq(GroupRecipients(<<>>, SplitOnBlank(strip(RecipientText(o, text)))),
                      LAMBDA r : r.email_addresses # <<>>))

\* " ".join(lines).
RECURSIVE JoinWithBlank(_)
JoinWithBlank(lines) ==
    IF lines = <<>> THEN <<>>
    ELSE IF Len(lines) = 1 THEN lines[1]
    ELSE lines[1] \o <<SP>> \o JoinWithBlank(Tail(lines))

\* `or`: the second list stands in for an empty first one.
OrElse(first, second) == IF first = <<>> THEN second ELSE first

_get_email_recipients(o) ==
    IF ~_is_appellate(o) /\ o.tree.nef_links # <<>>
    THEN _get_email_recipients_with_links(o, o.tree.nef_parent)
    ELSE _get_email_recipients_with_links(o,
             JoinWithBlank(OrElse(IF _is_appellate(o) THEN o.tree.nda_texts
                                  ELSE o.tree.nef_texts,
                                  o.tree.will_texts)))

\* The text after the marker at i (0: no match).
RecipientBlockAt(s, i) ==
    IF i = 0 THEN <<>>
    ELSE <<SubSeq(s, i + 3, IF s # <<>> /\ Last(s) = NL /\ i + 3 <= Len(s)
                            THEN Len(s) - 1 ELSE Len(s))>>

\* re.findall(r"^.*?Notice has been electronically mailed to:(.*?)$", s,
\* re.DOTALL): the text after the first marker, as a one-element list.
FindRecipientBlock(s) ==
    RecipientBlockAt(s, Find(s, <<"Notice has been", SP, "electronically mailed to:">>, 1))

CleanEach(strs) == [k \in 1..Len(strs) |-> clean_string(strs[k])]

\* The loop of _get_email_recipients_plain over the lines, from index k
\* (Python's index k - 1).
RECURSIVE ScanLines(_, _, _)
\* The loop of the line scanner taking every line for a line of addresses.
AddEveryLine(email_recipients, lines, k) ==
    Append(email_recipients,
           [email_addresses |-> CleanEach(split(lines[k], <<",">>)),
            name |-> clean_string(IF k = 1 THEN lines[Len(lines)] ELSE lines[k - 1])])

\* The recipients after line k: a line with an address names a recipient,
\* whose name is the line before (index -1 is the last line).
AddLine(email_recipients, lines, k) ==
    IF HasAt(lines[k])
    THEN Append(email_recipients,
                [email_addresses |-> CleanEach(split(lines[k], <<",">>)),
                 name |-> clean_string(IF k = 1 THEN lines[Len(lines)]
                                       ELSE lines[k - 1])])
    ELSE email_recipients

ScanLines(email_recipients, lines, k) ==
    IF k > Len(lines) THEN email_recipients
    ELSE IF Contains(lines[k], <<"Notice will be delivered">>)
    THEN AddLine(email_recipients, lines, k)
    ELSE ScanLines(AddLine(email_recipients, lines, k), lines, k + 1)

\* The recipients found in the block, if there is one.
RecipientsOf(find_emails) ==
    IF find_emails = <<>> THEN <<>>
    ELSE ScanLines(<<>>, splitlines(find_emails[1]), 1)

_get_email_recipients_plain(o) == RecipientsOf(FindRecipientBlock(text_content(o)))

\* ------------------------------------------------------------------------
\* S3NotificationEmail._parse_text.
\* ------------------------------------------------------------------------

NoExc == Exc("None", <<>>)

\* message.walk().
walk(message) ==
    IF message.multipart THEN <<Container>> \o message.parts ELSE message.parts

\* BaseReport.is_valid after the text was checked for the error strings.
StillValid(o, body) ==
    o.is_valid /\ ~\E k \in 1..Len(body.text) : body.text[k] \in ERROR_STRINGS

\* BaseReport._parse_text: the validity check, then the tree.
base_parse_text(o, body) ==
    [o EXCEPT !.is_valid = StillValid(o, body),
              !.tree = IF StillValid(o, body) THEN body ELSE o.tree]

\* Among the parts w of walk(): the index the loops stop at, or 0.
FirstBody(message, w) ==
    MinOr({k \in 1..Len(w) :
              \/ w[k].ctype = "text/html"
              \/ /\ w[k].ctype = "text/plain"
                 /\ message.multipart \/ ~Contains(w[k].dispo, <<"attachment">>)}, 0)

\* The part the loops of _parse_text stop at: its index in walk(), or 0.
ChosenPart(message) == FirstBody(message, walk(message))

\* Lines 852-866: the subject, and whether an image is attached.
WithSubject(o, message) ==
    [o EXCEPT !.subject = message.subject,
              !.image_attached =
                  IF /\ message.multipart
                     /\ \E k \in 1..Len(walk(message)) : walk(message)[k].maintype = "image"
                  THEN TRUE ELSE @]

\* Lines 868-898: the body of part k is parsed; without a body the name
\* `body` is unbound.
ParseBody(o1, w, k) ==
    IF k = 0
    THEN [o |-> o1, exc |-> UnboundLocal("body")]
    ELSE [o |-> base_parse_text([o1 EXCEPT !.content_type = w[k].ctype], w[k].body),
          exc |-> NoExc]

\* The object after _parse_text and the exception it raised, if any.
_parse_text(o, message) == ParseBody(WithSubject(o, message), walk(message), ChosenPart(message))

\* ------------------------------------------------------------------------
\* The state machine: one parser object, its message, and its caller.
\* ------------------------------------------------------------------------

EmptyMapping == <<>>

Returned(v) == [kind |-> "return", value |-> v, exc |-> NoExc]
Raised(e)   == [kind |-> "raise", value |-> EmptyMapping, exc |-> e]

NoTable == Table(1, "none", "nocell", "none")

IdleCall == [
    pc            |-> "idle",
    parsed        |-> FALSE,     \* _parse_text has been called
    parse_exc     |-> NoExc,     \* what _parse_text raised
    entry         |-> __init__(<<>>), \* the object when the evaluation of data began
    appellate     |-> FALSE,     \* parsed["appellate"]
    dockets_table |-> <<>>,
    i             |-> 0,         \* the index of docket_table in dockets_table
    dockets       |-> <<>>,
    docket_number |-> None,
    case_name     |-> None,
    log           |-> <<>> ]     \* the fingerprints logger.error was given

\* No other object: the object of `self` is the only one.
NoOthers == [running |-> "only", parked |-> <<>>]

Init ==
    /\ email \in Emails
    /\ self \in {__init__(c) : c \in Courts}
    /\ call = IdleCall
    /\ reads = <<>>
    /\ others = NoOthers

\* The object and the caller after _parse_text gave r.
Parsed(r) ==
    /\ self' = r.o
    /\ call' = [call EXCEPT !.parsed = TRUE, !.parse_exc = r.exc]

\* The caller hands the message to the object.
ParseText ==
    /\ call.pc = "idle"
    /\ ~call.parsed
    /\ Parsed(_parse_text(self, email))
    /\ UNCHANGED <<email, reads>>
    /\ UNCHANGED others

\* The guard of data without its test of image_attached.
InvalidIgnoringImage(o) == o.is_valid = FALSE \/ o.tree = NoTree

\* The guard of data (line 69).
Invalid(o) == o.is_valid = FALSE \/ o.tree = NoTree \/ o.image_attached

\* The caller reads data: lines 67-75.
DataEnter ==
    /\ call.pc = "idle"
    /\ Len(reads) < MaxReads
    /\ IF Invalid(self)
       THEN /\ reads' = Append(reads, Returned(EmptyMapping))
            /\ UNCHANGED call
       ELSE /\ call' = [call EXCEPT !.pc = "is_appellate", !.entry = self,
                                     !.dockets_table = <<>>, !.i = 0, !.dockets = <<>>,
                                     !.docket_number = None, !.case_name = None]
            /\ UNCHANGED reads
    /\ UNCHANGED <<email, self>>
    /\ UNCHANGED others

\* Line 76.
IsAppellate ==
    /\ call.pc = "is_appellate"
    /\ self' = AfterIsAppellate(self)
    /\ call' = [call EXCEPT !.pc = "get_dockets", !.appellate = _is_appellate(self)]
    /\ UNCHANGED <<email, reads>>
    /\ UNCHANGED others

MultiDocketNDAError(o) ==
    Exc("NotImplementedError",
        <<"Received a potential multi-docket NDA notification. ",
          "This is probably our chance to add support for it. ",
          "court: ">> \o o.court_id)

\* self.tree.xpath("//table[contains(., 'Case Name:')]").
DocketsTable(o) == o.tree.tables

\* The guard of line 395 with its limit off by one.
TooManyNDATablesOffByOne(o) == o.appellate = "True" /\ Len(DocketsTable(o)) > 2

\* The guard of line 395.
TooManyNDATables(o) == AppellateSet(o) /\ Len(DocketsTable(o)) > 1

\* _get_dockets, lines 378-400.
GetDocketsEnter ==
    /\ call.pc = "get_dockets"
    /\ IF IsPlain(self)
       THEN /\ call' = [call EXCEPT !.pc = "docket_number"]
            /\ UNCHANGED reads
       ELSE IF TooManyNDATables(self)
       THEN /\ call' = [call EXCEPT !.pc = "idle"]
            /\ reads' = Append(reads, Raised(MultiDocketNDAError(self)))
       ELSE /\ call' = [call EXCEPT
                          !.pc = IF DocketsTable(self) = <<>> THEN "override" ELSE "docket_number",
                          !.dockets_table = DocketsTable(self),
                          !.i = 1]
            /\ UNCHANGED reads
    /\ UNCHANGED <<email, self>>
    /\ UNCHANGED others

\* The table the loop of line 401 is at.
docket_table == IF IsPlain(self) THEN NoTable ELSE call.dockets_table[call.i]

\* The docket number is appended to the cache of object o.
CacheDocketNumber(o, docket_number) ==
    /\ self' = [o EXCEPT !.docket_numbers = Append(@, docket_number)]
    /\ call' = [call EXCEPT !.pc = "case_name", !.docket_number = docket_number]

\* Lines 380-382 and 402-404: the docket number is read and cached.
DocketNumber ==
    /\ call.pc = "docket_number"
    /\ IF IsPlain(self)
       THEN CacheDocketNumber(self, _get_docket_number_plain(self))
       ELSE CacheDocketNumber(AfterIsAppellate(self), _get_docket_number(self, docket_table))
    /\ UNCHANGED <<email, reads>>
    /\ UNCHANGED others

\* The case name is appended to the cache, or the exception reaches the
\* caller.
CacheCaseName(r) ==
    IF r.ok
    THEN /\ self' = [self EXCEPT !.case_names = Append(@, r.val.cache)]
         /\ call' = [call EXCEPT !.pc = "docket_entries", !.case_name = r.val.name]
         /\ UNCHANGED reads
    ELSE /\ reads' = Append(reads, Raised(r.exc))
         /\ call' = [call EXCEPT !.pc = "idle"]
         /\ UNCHANGED self

\* Lines 385 and 406: the case name is read and cached.
CaseName ==
    /\ call.pc = "case_name"
    /\ CacheCaseName(IF IsPlain(self) THEN _get_case_name_plain(self)
                     ELSE _get_case_name(self, docket_table))
    /\ UNCHANGED email
    /\ UNCHANGED others

\* The loop of line 401 has tables left.
MoreTables == ~IsPlain(self) /\ call.i < Len(call.dockets_table)

\* The docket of lines 388-390 and 409-411.
Docket(docket_entries) ==
    [case_name      |-> call.case_name,
     docket_number  |-> call.docket_number,
     date_filed     |-> None,
     docket_entries |-> docket_entries]

\* The docket is added, or the exception reaches the caller.
AddDocket(r) ==
    IF r.ok
    THEN /\ call' = [call EXCEPT
                       !.dockets = Append(@, Docket(r.val)),
                       !.log = @ \o r.log,
                       !.i = IF MoreTables THEN @ + 1 ELSE @,
                       !.pc = IF IsPlain(self) THEN "finish"
                              ELSE IF MoreTables THEN "docket_number"
                              ELSE "override"]
         /\ UNCHANGED reads
    ELSE /\ reads' = Append(reads, Raised(r.exc))
         /\ call' = [call EXCEPT !.pc = "idle", !.log = @ \o r.log]

\* Lines 388-390 and 409-411: the entries are read and the docket is added.
DocketEntries ==
    /\ call.pc = "docket_entries"
    /\ AddDocket(_get_docket_entries(self, docket_table))
    /\ self' = IF IsPlain(self) THEN self ELSE AfterIsAppellate(self)
    /\ UNCHANGED email
    /\ UNCHANGED others

\* The logs of n calls that each log `log`.
RECURSIVE Repeat(_, _)
Repeat(log, n) == IF n = 0 THEN <<>> ELSE log \o Repeat(log, n - 1)

\* The dockets that have a first entry.
WithEntries == {k \in 1..Len(call.dockets) : call.dockets[k].docket_entries # <<>>}

\* The dockets kept as they were extracted.
NoOverride(r) ==
    /\ call' = [call EXCEPT !.pc = "finish"]
    /\ UNCHANGED reads

\* Every first entry gets the short description r, or the exception
\* reaches the caller.
OverrideWith(r) ==
    IF r.ok
    THEN /\ call' = [call EXCEPT
                       !.pc = "finish",
                       !.log = @ \o Repeat(r.log, Cardinality(WithEntries)),
                       !.dockets = [k \in 1..Len(@) |->
                           IF k \in WithEntries
                           THEN [@[k] EXCEPT !.docket_entries[1].short_description = r.val]
                           ELSE @[k]]]
         /\ UNCHANGED reads
    ELSE /\ reads' = Append(reads, Raised(r.exc))
         /\ call' = [call EXCEPT !.pc = "idle", !.log = @ \o r.log]

\* Lines 413-421: in a message of several dockets the first entry of every
\* docket gets the short description of the message.
Override ==
    /\ call.pc = "override"
    /\ IF Len(call.dockets) > 1 /\ WithEntries # {}
       THEN OverrideWith(_get_short_description(self))
       ELSE /\ call' = [call EXCEPT !.pc = "finish"]
            /\ UNCHANGED reads
    /\ UNCHANGED <<email, self>>
    /\ UNCHANGED others

\* The mapping data returns (lines 370-378 and 79-85).
Result(email_recipients) ==
    [court_id  |-> self.court_id,
     appellate |-> call.appellate,
     dockets   |-> call.dockets,
     contains_attachments |->
         IF IsPlain(self) THEN _contains_attachments_plain(self)
         ELSE _contains_attachments(self),
     email_recipients |-> email_recipients]

\* The mapping is returned, or the exception reaches the caller.
ReturnWith(recipients) ==
    reads' = Append(reads, IF recipients.ok THEN Returned(Result(recipients.val))
                           ELSE Raised(recipients.exc))

\* Lines 79-85: attachments and recipients, and the mapping is returned.
Finish ==
    /\ call.pc = "finish"
    /\ ReturnWith(IF IsPlain(self) THEN Ok(_get_email_recipients_plain(self))
                  ELSE _get_email_recipients(self))
    /\ call' = [call EXCEPT !.pc = "idle"]
    /\ self' = IF IsPlain(self) THEN self ELSE AfterIsAppellate(self)
    /\ UNCHANGED email
    /\ UNCHANGED others

Next ==
    \/ ParseText
    \/ DataEnter
    \/ IsAppellate
    \/ GetDocketsEnter
    \/ DocketNumber
    \/ CaseName
    \/ DocketEntries
    \/ Override
    \/ Finish

Spec == Init /\ [][Next]_vars

\* ------------------------------------------------------------------------
\* The short description on its own: an object whose caches are filled, as
\* _get_docket_entries finds it, and one call of _get_short_description.
\* ------------------------------------------------------------------------

nysd == <<"n", "y", "s", "d">>
flsb == <<"f", "l", "s", "b">>

ShortCourts == {nysd, flsb, cacb, ctb, cob, njb, nysb, pawb}

\* The docket number with the initials of the judge, as the subject has it.
DocketNoWithTrace(i) == DocketNoOf(i) \o <<"-", "SY">>

\* The caches after the first table, after the second table, and after a
\* table whose docket number or case name was not found.
ShortCaches == {
    [docket_numbers |-> <<DocketNoOf(1)>>,         case_names |-> <<CaseNameOf(1)>>],
    [docket_numbers |-> <<DocketNoWithTrace(1)>>,  case_names |-> <<CaseNameOf(1)>>],
    [docket_numbers |-> <<DocketNoOf(1), DocketNoOf(2)>>,
     case_names     |-> <<CaseNameOf(1), CaseNameOf(2)>>],
    [docket_numbers |-> <<None>>,                  case_names |-> <<CaseNameOf(1)>>],
    [docket_numbers |-> <<DocketNoOf(1)>>,         case_names |-> <<<<"Unknown Case Title">>>>] }

\* Subject lines: none, an empty one, the subjects of district and
\* bankruptcy courts, and subjects of courts of appeals with quoted text.
ShortSubjects == {
    None,
    <<>>,
    SubjectLine,
    SubjectLine2,
    DocketNoWithTrace(1) \o <<SP, "Ch13", SP, "Affidavit", SP, "Re:", SP>> \o CaseNameOf(1),
    DocketNoOf(1) \o <<SP>> \o CaseNameOf(1) \o <<SP, QUOTE, "Letter", SP, "RECEIVED", QUOTE>>,
    DocketNoOf(1) \o <<SP>> \o CaseNameOf(1)
        \o <<SP, QUOTE, "Brief", QUOTE, SP, "and", SP, QUOTE, "Appendix", QUOTE>>,
    <<"Re", SP>> \o DocketNoOf(1) \o <<SP, "and", SP>> \o DocketNoWithTrace(1)
        \o <<SP, SP, "Notice", SP, "-", SP, "NEF">>,
    CaseNameOf(1) \o <<SP, "Motion", SP>> \o CaseNameOf(2) \o <<SP, "Order">> }

\* What follows "Document Description: " in the footer, if it is there.
ShortFooters == {
    <<>>,
    << <<"Main", SP, "document">> >>,
    << <<"Main", "_", "document">> >>,
    << <<"Motion", "_", "to", "_", "Dismiss">> >>,
    << <<"Order">> >>,
    << <<"Letter", "_", "RECEIVED", "_", "late">> >> }

\* The object, parsed and with its caches filled.
ShortObject(court_id, appellate, caches, subject, footer) ==
    [__init__(court_id) EXCEPT
        !.content_type   = "text/html",
        !.appellate      = appellate,
        !.docket_numbers = caches.docket_numbers,
        !.case_names     = caches.case_names,
        !.subject        = subject,
        !.tree           = [NoTree EXCEPT !.kind = "html", !.footer = footer]]

ShortInit ==
    /\ self \in {ShortObject(c, a, ch, su, f) :
                    c \in ShortCourts, a \in {"True", "False"}, ch \in ShortCaches,
                    su \in ShortSubjects, f \in ShortFooters}
    /\ email = [subject |-> self.subject, multipart |-> FALSE, parts |-> <<>>]
    /\ call = IdleCall
    /\ reads = <<>>
    /\ others = NoOthers

\* What _get_short_description gave: its value or its exception, and what
\* it logged.
ShortDescriptionGave(r) ==
    /\ reads' = <<IF r.ok THEN Returned(r.val) ELSE Raised(r.exc)>>
    /\ call' = [call EXCEPT !.log = r.log]

\* One call of _get_short_description.
ShortDescription ==
    /\ reads = <<>>
    /\ ShortDescriptionGave(_get_short_description(self))
    /\ UNCHANGED <<email, self>>
    /\ UNCHANGED others

ShortNext == ShortDescription

ShortSpec == ShortInit /\ [][ShortNext]_vars

\* ------------------------------------------------------------------------
\* Several objects at once. `email`, `self`, `call` and `reads` are those of
\* the object whose step is being taken; `others` holds the rest. The object
\* "alone" parses its message on its own, to the end; then the objects
\* "first" and "second" parse theirs with their steps interleaved in every
\* order, "first" being given the message of "alone".
\* ------------------------------------------------------------------------

Interleaved == {"first", "second"}

ConcurrentCourts == {nysd, cacb}

\* A notification of two dockets, as HTML.
TwoDocketEmail ==
    [subject |-> SubjectLine2, multipart |-> FALSE,
     parts |-> <<TextPart(HtmlDoc(FALSE, TRUE, FALSE,
                    [n |-> 2, descr |-> "direct", doc |-> "a12", casea |-> "nonce"]))>>]

\* The notification of two dockets, one as plain text, and a multipart one.
ConcurrentEmails == {
    TwoDocketEmail,
    [subject |-> SubjectLine, multipart |-> FALSE, parts |-> <<TextPart(GoodPlain)>>],
    [subject |-> SubjectLine, multipart |-> TRUE, parts |-> <<TextPart(GoodHtml)>>] }

\* An object just constructed for the court, and the message it will parse.
Fresh(message, court_id) ==
    [email |-> message, self |-> __init__(court_id), call |-> IdleCall, reads |-> <<>>]

\* The object whose step is being taken.
Running == [email |-> email, self |-> self, call |-> call, reads |-> reads]

\* The caller of the object has read data as often as it will.
Done(w) == w.call.pc = "idle" /\ w.call.parsed /\ Len(w.reads) = MaxReads

ConcurrentInit ==
    /\ email \in ConcurrentEmails
    /\ self \in {__init__(c) : c \in ConcurrentCourts}
    /\ call = IdleCall
    /\ reads = <<>>
    /\ others \in {[running |-> "alone",
                    parked  |-> [id \in Interleaved |->
                                   IF id = "first" THEN Fresh(email, self.court_id)
                                   ELSE Fresh(m, c)]] :
                       m \in ConcurrentEmails, c \in ConcurrentCourts}

\* The attributes of an object with the caches of the class: docket_numbers
\* and case_names are those of the object that ran last.
AttributesWithClassCaches(w) ==
    [w.self EXCEPT !.docket_numbers = self.docket_numbers,
                   !.case_names = self.case_names]

\* The attributes an object reads and writes: __init__ binds each of them,
\* the two caches included, to the object itself.
OwnAttributes(w) == w.self

\* The object w takes the next steps.
Resume(w) ==
    /\ email' = w.email
    /\ self' = OwnAttributes(w)
    /\ call' = w.call
    /\ reads' = w.reads

\* The objects that are not running, once the running one is set aside
\* for the object id.
Parked(id) ==
    [j \in (DOMAIN others.parked \cup {others.running}) \ {id} |->
        IF j = others.running THEN Running ELSE others.parked[j]]

\* The caller reads data of the message it has handed to the object.
ReadParsed == call.parsed /\ DataEnter

\* Another object takes the next steps; "alone" is left when it is done.
Switch ==
    \E id \in Interleaved :
        /\ id # others.running
        /\ others.running = "alone" => Done(Running)
        /\ Resume(others.parked[id])
        /\ others' = [running |-> id, parked |-> Parked(id)]

ConcurrentNext ==
    \/ ParseText
    \/ ReadParsed
    \/ IsAppellate
    \/ GetDocketsEnter
    \/ DocketNumber
    \/ CaseName
    \/ DocketEntries
    \/ Override
    \/ Finish
    \/ Switch

ConcurrentSpec == ConcurrentInit /\ [][ConcurrentNext]_vars

\* ------------------------------------------------------------------------
\* One object, two messages. The object "fresh" parses the second message
\* and is read to the end; then another object of the same court parses
\* the first message, is read or not, and parses the second message.
\* `others.running` tells which of the three is in `self`.
\* ------------------------------------------------------------------------

\* A notification of a court of appeals, as HTML.
NDAEmail ==
    [subject |-> SubjectLine, multipart |-> FALSE,
     parts |-> <<TextPart(HtmlDoc(TRUE, TRUE, FALSE,
                    [n |-> 1, descr |-> "direct", doc |-> "a12", casea |-> "nonce"]))>>]

\* Notifications as HTML, as plain text, of a court of appeals, and with an
\* image attached.
ReparseEmails == {
    [subject |-> SubjectLine, multipart |-> FALSE, parts |-> <<TextPart(GoodHtml)>>],
    [subject |-> SubjectLine, multipart |-> FALSE, parts |-> <<TextPart(GoodPlain)>>],
    NDAEmail,
    [subject |-> SubjectLine, multipart |-> TRUE, parts |-> <<TextPart(GoodHtml), ImagePart>>] }

ReparseInit ==
    /\ email \in ReparseEmails
    /\ self \in {__init__(c) : c \in ConcurrentCourts}
    /\ call = IdleCall
    /\ reads = <<>>
    /\ others \in {[running |-> "fresh",
                    parked  |-> [id \in {"first message"} |-> Fresh(m, self.court_id)]] :
                       m \in ReparseEmails}

\* The object "fresh" is done, and the other object is handed its first
\* message.
Reuse ==
    /\ others.running = "fresh"
    /\ Done(Running)
    /\ Resume(others.parked["first message"])
    /\ others' = [running |-> "first message", parked |-> [id \in {"fresh"} |-> Running]]

\* The object that parsed the first message is handed the second one:
\* _parse_text is called again, and the caller starts to read anew.
ParseNext ==
    /\ others.running = "first message"
    /\ call.pc = "idle"
    /\ call.parsed
    /\ Parsed(_parse_text(self, others.parked["fresh"].email))
    /\ email' = others.parked["fresh"].email
    /\ reads' = <<>>
    /\ others' = [others EXCEPT !.running = "second message"]

ReparseNext ==
    \/ ParseText
    \/ ReadParsed
    \/ IsAppellate
    \/ GetDocketsEnter
    \/ DocketNumber
    \/ CaseName
    \/ DocketEntries
    \/ Override
    \/ Finish
    \/ Reuse
    \/ ParseNext

ReparseSpec == ReparseInit /\ [][ReparseNext]_vars

\* ------------------------------------------------------------------------
\* The recipients of links on their own: `email` is the text handed to
\* _get_email_recipients_with_links, and `self` an object with its cache
\* of docket numbers.
\* ------------------------------------------------------------------------

MaxTokens == 4

\* What stands between two blanks of the text: parts of names, addresses
\* with and without a comma, a docket number, nothing.
RecipientTokens == {
    <<"John">>, <<"Doe">>, <<"jd@x.com">>, <<"jd2@x.com", ",">>, DocketNoOf(1), <<>> }

\* " ".join(tokens).
RECURSIVE JoinTokens(_)
JoinTokens(tokens) ==
    IF tokens = <<>> THEN <<>>
    ELSE IF Len(tokens) = 1 THEN tokens[1]
    ELSE tokens[1] \o <<SP>> \o JoinTokens(Tail(tokens))

RecipientTexts ==
    {JoinTokens(ts) : ts \in UNION {[1..n -> RecipientTokens] : n \in 0..MaxTokens}}

RecipientsInit ==
    /\ email \in RecipientTexts
    /\ self \in {[__init__(nysd) EXCEPT !.content_type = "text/html", !.docket_numbers = dn] :
                    dn \in {<<>>, <<DocketNoOf(1)>>, <<None>>}}
    /\ call = IdleCall
    /\ reads = <<>>
    /\ others = NoOthers

\* What _get_email_recipients_with_links gave: its list or its exception.
RecipientsGave(r) == reads' = <<IF r.ok THEN Returned(r.val) ELSE Raised(r.exc)>>

\* One call of _get_email_recipients_with_links.
EmailRecipientsWithLinks ==
    /\ reads = <<>>
    /\ RecipientsGave(_get_email_recipients_with_links(self, email))
    /\ UNCHANGED <<email, self, call, others>>

RecipientsNext == EmailRecipientsWithLinks

RecipientsSpec == RecipientsInit /\ [][RecipientsNext]_vars

\* ------------------------------------------------------------------------
\* The recipients of a plain-text body on their own: `self` has parsed a
\* body that ends with the block of the recipients.
\* ------------------------------------------------------------------------

MaxLines == 3

\* The lines of the block: a name, addresses, the line that ends the block
\* of the recipients by email, an empty line.
RecipientLines == {
    <<"John", SP, "Doe">>,
    <<"jd@x.com", ",", SP, "jd2@x.com">>,
    <<"ar@y.org">>,
    <<"Notice will be delivered", SP, "by other means to:">>,
    <<>> }

\* "\n".join(lines).
RECURSIVE JoinLinesNL(_)
JoinLinesNL(lines) ==
    IF lines = <<>> THEN <<>>
    ELSE IF Len(lines) = 1 THEN lines[1]
    ELSE lines[1] \o <<NL>> \o JoinLinesNL(Tail(lines))

\* A body whose block of recipients starts on the line of the marker
\* (after a blank) or on the next line.
PlainRecipientBody(after_marker, lines) ==
    <<"Docket Text:", NL, "ORDER", NL, "Notice has been", SP, "electronically mailed to:">>
    \o after_marker \o JoinLinesNL(lines) \o <<NL>>

PlainRecipientBodies ==
    {PlainRecipientBody(a, ls) :
        a \in {<<SP>>, <<NL>>},
        ls \in UNION {[1..n -> RecipientLines] : n \in 1..MaxLines}}

PlainRecipientsInit ==
    /\ email \in PlainRecipientBodies
    /\ self = [__init__(nysd) EXCEPT !.content_type = "text/plain",
                                     !.tree = [NoTree EXCEPT !.kind = "plain", !.text = email]]
    /\ call = IdleCall
    /\ reads = <<>>
    /\ others = NoOthers

\* One call of _get_email_recipients_plain.
EmailRecipientsPlain ==
    /\ reads = <<>>
    /\ reads' = <<Returned(_get_email_recipients_plain(self))>>
    /\ UNCHANGED <<email, self, call, others>>

PlainRecipientsNext == EmailRecipientsPlain

PlainRecipientsSpec == PlainRecipientsInit /\ [][PlainRecipientsNext]_vars

\* ------------------------------------------------------------------------
\* The description of a plain-text body on its own: `self` has parsed a
\* body made of labels, words and line ends in any order.
\* ------------------------------------------------------------------------

MaxAtoms == 5

DescriptionAtoms == {
    "Docket Text:", "ORDER", NL, "The following document", "Notice has been",
    "electronically mailed to:" }

PlainDescriptionBodies == UNION {[1..n -> DescriptionAtoms] : n \in 0..MaxAtoms}

PlainDescriptionInit ==
    /\ email \in PlainDescriptionBodies
    /\ self = [__init__(nysd) EXCEPT !.content_type = "text/plain",
                                     !.tree = [NoTree EXCEPT !.kind = "plain", !.text = email]]
    /\ call = IdleCall
    /\ reads = <<>>
    /\ others = NoOthers

\* What _get_description_plain gave: the description or its exception.
DescriptionGave(r) == reads' = <<IF r.ok THEN Returned(r.val) ELSE Raised(r.exc)>>

\* One call of _get_description_plain.
GetDescriptionPlain ==
    /\ reads = <<>>
    /\ DescriptionGave(_get_description_plain(self))
    /\ UNCHANGED <<email, self, call, others>>

PlainDescriptionNext == GetDescriptionPlain

PlainDescriptionSpec == PlainDescriptionInit /\ [][PlainDescriptionNext]_vars

\* ------------------------------------------------------------------------
\* S3NotificationEmail: the lines of an archived message joined again.  A
\* text is a sequence of characters, "=" and the line end among them.
\* ------------------------------------------------------------------------

MaxChars == 5

S3Chars == {"a", "b", "=", NL}

S3Texts == UNION {[1..n -> S3Chars] : n \in 0..MaxChars}

\* re.search(r"=$", line) on a line without a line end.
EndsWithEquals(line) == line # <<>> /\ Last(line) = "="

\* re.sub(r"=$", "", line) on a line that ends with "=".
WithoutLastEquals(line) == SubSeq(line, 1, Len(line) - 1)

\* The loop of _combine_lines_with_proper_spaces.
RECURSIVE CombineLoop(_, _, _)
CombineLoop(lines, combined, last_line_match) ==
    IF lines = <<>> THEN combined
    ELSE IF EndsWithEquals(Head(lines))
    THEN CombineLoop(Tail(lines), combined \o WithoutLastEquals(Head(lines)), TRUE)
    ELSE IF last_line_match
    THEN CombineLoop(Tail(lines), combined \o Head(lines), FALSE)
    ELSE CombineLoop(Tail(lines), combined \o <<SP>> \o Head(lines), FALSE)

_combine_lines_with_proper_spaces(text) == CombineLoop(split(text, <<NL>>), <<>>, FALSE)

_html_from_s3_email(text) == _combine_lines_with_proper_spaces(text)

S3Init ==
    /\ email \in S3Texts
    /\ self = __init__(nysd)
    /\ call = IdleCall
    /\ reads = <<>>
    /\ others = NoOthers

\* One call of _html_from_s3_email on the text of the message.
HtmlFromS3Email ==
    /\ reads = <<>>
    /\ reads' = <<Returned(_html_from_s3_email(email))>>
    /\ UNCHANGED <<email, self, call, others>>

S3Next == HtmlFromS3Email

S3Spec == S3Init /\ [][S3Next]_vars

\* ------------------------------------------------------------------------
\* What a caller can observe.
\* ------------------------------------------------------------------------

\* The reads of data that returned a mapping with content.
Results == {k \in 1..Len(reads) : reads[k].kind = "return" /\ reads[k].value # EmptyMapping}

\* The places <<k, d, e>> of the docket entries the reads returned.
ReturnedEntries ==
    {x \in Results \X (1..MaxTables) \X {1} :
        /\ x[2] <= Len(reads[x[1]].value.dockets)
        /\ x[3] <= Len(reads[x[1]].value.dockets[x[2]].docket_entries)}

\* The docket entry at place x.
EntryAt(x) == reads[x[1]].value.dockets[x[2]].docket_entries[x[3]]

\* The last read of data.
LastRead == reads[Len(reads)]

\* A step in which data returns or raises.
ReadEnds == Len(reads') = Len(reads) + 1

\* A step in which data raises an exception of the type, whose message
\* names the court.
RaisesNamingCourt(type) ==
    /\ ReadEnds
    /\ reads'[Len(reads')].kind = "raise"
    /\ reads'[Len(reads')].exc.type = type
    /\ Contains(reads'[Len(reads')].exc.msg, self.court_id)

\* The caches of the object are as they were when the read began.
CachesAsAtEntry ==
    /\ self'.docket_numbers = call.entry.docket_numbers
    /\ self'.case_names = call.entry.case_names

\* ------------------------------------------------------------------------
\* Properties.
\* ------------------------------------------------------------------------

\* C1: reading data on an invalid notification (is_valid is False, the tree
\* is None, or an image is attached) returns the empty mapping without
\* raising and leaves the object, its caches and its appellate flag
\* included, exactly as it was.
C1_InvalidReadsEmpty ==
    [][ ( /\ call.pc = "idle"
          /\ call'.parsed = call.parsed
          /\ self.is_valid = FALSE \/ self.tree = NoTree \/ self.image_attached )
        => ( /\ reads' = Append(reads, Returned(EmptyMapping))
             /\ self' = self
             /\ call' = call ) ]_vars

\* C1: a parsed message with an image among its parts was read, and the
\* read gave the empty mapping and extracted nothing.
C1_Witness ==
    /\ call.parsed
    /\ self.image_attached /\ self.is_valid /\ self.tree # NoTree
    /\ Len(reads) = MaxReads
    /\ \A k \in 1..Len(reads) : reads[k] = Returned(EmptyMapping)
    /\ self.docket_numbers = <<>> /\ self.case_names = <<>> /\ self.appellate = "None"

\* C2: two reads of data on one parsed object of a valid message give the
\* same result.
C2_ReadTwiceSame ==
    (Len(reads) = 2 /\ 1 \in Results) => reads[2] = reads[1]

\* C3: for an HTML appellate message with more than one table that holds
\* "Case Name:", data raises NotImplementedError naming the court, before
\* any docket number or case name is extracted or cached.
C3_MultiDocketNDARaises ==
    [][ ( /\ call.pc = "get_dockets"
          /\ self.content_type # "text/plain"
          /\ self.appellate = "True"
          /\ Len(self.tree.tables) > 1 )
        => ( /\ RaisesNamingCourt("NotImplementedError")
             /\ CachesAsAtEntry
             /\ self' = self
             /\ call'.dockets = <<>>
             /\ call'.pc = "idle" ) ]_vars

\* C3: an appellate message of two tables was read and the read raised, the
\* caches being empty.
C3_Witness ==
    /\ reads # <<>>
    /\ LastRead.kind = "raise"
    /\ LastRead.exc = MultiDocketNDAError(self)
    /\ self.content_type = "text/html"
    /\ self.appellate = "True"
    /\ Len(self.tree.tables) = 2
    /\ self.docket_numbers = <<>> /\ self.case_names = <<>>

\* The "Case Name:" labels of the text.
CaseNameMatches(o) == {i \in 1..Len(o.tree.text) : o.tree.text[i] = "Case Name:"}

\* C4: for a plain-text message with more than one "Case Name:" match the
\* extraction of the docket raises NotImplementedError naming the court; no
\* case name is picked and no docket is returned.
C4_MultiDocketPlainRaises ==
    [][ ( /\ call.pc = "case_name"
          /\ self.content_type = "text/plain"
          /\ Cardinality(CaseNameMatches(self)) > 1 )
        => ( /\ RaisesNamingCourt("NotImplementedError")
             /\ self'.case_names = self.case_names
             /\ call'.dockets = <<>>
             /\ call'.pc = "idle" ) ]_vars

\* C4: a plain-text message of two "Case Name:" lines was read and the read
\* raised.
C4_Witness ==
    /\ reads # <<>>
    /\ LastRead.kind = "raise"
    /\ LastRead.exc = MultiDocketPlainError(self)
    /\ self.content_type = "text/plain"
    /\ Cardinality(CaseNameMatches(self)) = 2
    /\ self.case_names = <<>>

\* No docket text can be located in the body of object o: in plain text the
\* expression captures nothing or only blanks; in HTML no path of the first
\* table yields text that is not blank.
NoDocketText(o) ==
    IF o.content_type = "text/plain"
    THEN PlainDescriptionOf(SearchDescr(text_content(o))) = <<>>
    ELSE /\ o.tree.tables # <<>>
         /\ IF _is_appellate(o)
            THEN clean_string(AddParts(<<>>, o.tree.tables[1].descr_following, TRUE)) = <<>>
            ELSE \A p \in 1..4 :
                    clean_string(AddParts(<<>>, o.tree.tables[1].descr_paths[p], FALSE)) = <<>>

\* C5: no docket entry is returned with an empty description or without
\* one; when no docket text can be located every read of data on the parsed
\* object raises an exception that names the court.
C5_DescriptionNeverEmpty ==
    /\ \A x \in ReturnedEntries : Truthy(EntryAt(x).description)
    /\ (self.tree # NoTree /\ NoDocketText(self))
       => \A k \in 1..Len(reads) :
             \/ reads[k] = Returned(EmptyMapping)
             \/ /\ reads[k].kind = "raise"
                /\ reads[k].exc.type \in {"Exception", "NotImplementedError"}
                /\ Contains(reads[k].exc.msg, self.court_id)

\* C5: a valid message without docket text was read and the read raised
\* the error of the missing description.
C5_Witness ==
    /\ reads # <<>>
    /\ self.tree # NoTree /\ NoDocketText(self)
    /\ LastRead.kind = "raise"
    /\ LastRead.exc \in {DescriptionError(self), PlainDescriptionError(self)}

\* The cleaned text of the message holds no "filed on".
NoFiledOn(o) == ~Contains(clean_string(text_content(o)), <<"filed", SP, "on", SP>>)

\* The description and the links of the entry at hand are found.
DescriptionFound ==
    IF IsPlain(self) THEN _get_description_plain(self).ok
    ELSE _get_description(self, docket_table).ok
LinksFound == EntryLinks(self, docket_table).ok

\* C6: when the cleaned text holds no "filed on <date>" the extraction of
\* the entry fails with an error that names the court.
C6_NoDateRaisesNamingCourt ==
    [][ ( /\ call.pc = "docket_entries"
          /\ NoFiledOn(self)
          /\ DescriptionFound /\ LinksFound )
        => ( /\ ReadEnds
             /\ reads'[Len(reads')].kind = "raise"
             /\ Contains(reads'[Len(reads')].exc.msg, self.court_id) ) ]_vars

\* The document number the code extracts for docket d is exactly "doc".
ExtractedDoc(d) ==
    IF IsPlain(self)
    THEN _get_document_number_plain(self) = <<"doc">>
    ELSE /\ ~_is_appellate(self)
         /\ _get_document_number(self, self.tree.tables[d]) = Ok(<<"doc">>)

\* C7: no returned docket entry has the document number "doc"; where the
\* extracted number is exactly "doc" the entry holds null.
C7_DocIsNull ==
    \A x \in ReturnedEntries :
        /\ EntryAt(x).document_number # <<"doc">>
        /\ ExtractedDoc(x[2]) => EntryAt(x).document_number = None

\* C7: an entry whose extracted document number is "doc" was returned.
C7_Witness ==
    \E x \in ReturnedEntries :
        ExtractedDoc(x[2]) /\ EntryAt(x).document_number = None

\* The case link found for docket d.
CaseUrlOf(d) ==
    IF IsPlain(self) THEN SearchCaseUrl(text_content(self))
    ELSE _get_case_anchor(self, self.tree.tables[d])

\* C8 as stated: in every returned entry without a document link the four
\* identifiers are null.
C8_NoIdentifiersWithoutDocumentUrl ==
    \A x \in ReturnedEntries :
        EntryAt(x).document_url = None
        => /\ EntryAt(x).pacer_doc_id = None
           /\ EntryAt(x).pacer_case_id = None
           /\ EntryAt(x).pacer_seq_no = None
           /\ EntryAt(x).pacer_magic_num = None

\* C8, amended: in every returned entry without a document link
\* pacer_doc_id, pacer_seq_no and pacer_magic_num are null, and
\* pacer_case_id is what the case link of the docket decodes to when one
\* was found, and null otherwise.
C8_CaseIdFromCaseUrlOnly ==
    \A x \in ReturnedEntries :
        EntryAt(x).document_url = None
        => /\ EntryAt(x).pacer_doc_id = None
           /\ EntryAt(x).pacer_seq_no = None
           /\ EntryAt(x).pacer_magic_num = None
           /\ EntryAt(x).pacer_case_id =
                 IF Truthy(CaseUrlOf(x[2]))
                 THEN _get_case_id_from_case_url(self, CaseUrlOf(x[2]))
                 ELSE None

\* C8: an entry without a document link was returned whose pacer_case_id
\* comes from the case link.
C8_Witness ==
    \E x \in ReturnedEntries :
        /\ EntryAt(x).document_url = None
        /\ Truthy(CaseUrlOf(x[2]))
        /\ Truthy(EntryAt(x).pacer_case_id)

\* C9: in every result classified as appellate every docket entry has a
\* null document number.
C9_AppellateHasNoDocumentNumber ==
    \A x \in ReturnedEntries :
        reads[x[1]].value.appellate => EntryAt(x).document_number = None

\* C10: no parsed notification is both appellate and bankruptcy.
C10_AppellateExcludesBankruptcy ==
    ~(self.tree # NoTree /\ _is_appellate(self) /\ self.is_bankruptcy)

\* C11: every result of data that is not the empty mapping holds at least
\* one docket.
C11_ResultHasDocket ==
    \A k \in Results : reads[k].value.dockets # <<>>

\* C12: every docket of a result has a case name that is not empty.
C12_CaseNameNotEmpty ==
    \A k \in Results : \A d \in 1..Len(reads[k].value.dockets) :
        Truthy(reads[k].value.dockets[d].case_name)

\* The recipients of the result of read k.
RecipientsAt(k) == reads[k].value.email_recipients

\* C13: every recipient of every result has a list of addresses that holds
\* at least one string that is not empty.
C13_RecipientHasAddress ==
    \A k \in Results : \A r \in 1..Len(RecipientsAt(k)) :
        \E a \in 1..Len(RecipientsAt(k)[r].email_addresses) :
            RecipientsAt(k)[r].email_addresses[a] # <<>>

\* C13: a result with recipients was returned, one of them with two
\* addresses.
C13_Witness ==
    \E k \in Results : \E r \in 1..Len(RecipientsAt(k)) :
        Len(RecipientsAt(k)[r].email_addresses) = 2

\* The entries of a docket with the short description of the first one
\* replaced.
WithShortDescription(docket_entries, short_description) ==
    [docket_entries EXCEPT ![1].short_description = short_description]

\* C14: when the loop over the tables of an HTML message has built more
\* than one docket, the first entry of every docket gets the short
\* description computed from the subject with the caches of all dockets,
\* whatever it held; with one docket nothing is overridden.
C14_MultiDocketOverride ==
    [][ call.pc = "override"
        => IF Len(call.dockets) > 1
           THEN _get_short_description(self).ok
                => /\ call'.pc = "finish"
                   /\ Len(call'.dockets) = Len(call.dockets)
                   /\ \A d \in 1..Len(call.dockets) :
                         /\ call'.dockets[d].docket_entries =
                               WithShortDescription(call.dockets[d].docket_entries,
                                                    _get_short_description(self).val)
                         /\ call'.dockets[d].case_name = call.dockets[d].case_name
                         /\ call'.dockets[d].docket_number = call.dockets[d].docket_number
           ELSE call'.dockets = call.dockets /\ call'.pc = "finish" ]_vars

\* C14: a result of two dockets was returned whose first entries hold the
\* same short description, which the first docket did not hold when it was
\* extracted: the subject names the case of the second docket.
C14_Witness ==
    /\ 1 \in Results
    /\ Len(reads[1].value.dockets) = 2
    /\ self.subject = SubjectLine2
    /\ ~self.is_bankruptcy
    /\ reads[1].value.dockets[1].docket_entries[1].short_description = <<"Order">>
    /\ reads[1].value.dockets[2].docket_entries[1].short_description = <<"Order">>

\* ------------------------------------------------------------------------
\* Observations of the short description on its own.
\* ------------------------------------------------------------------------

\* _get_short_description has been called on the object.
ShortRead == Len(reads) = 1

\* The call returned this text.
ShortReturned(text) == reads[1].kind = "return" /\ reads[1].value = text

\* The text of s after the last occurrence of sep; all of s without one.
AfterLastOccurrence(s, sep) ==
    SubSeq(s, MaxOr({i \in 1..Len(s) : MatchesAt(s, sep, i)}, 1 - Len(sep)) + Len(sep), Len(s))

\* The places of the double quotes of s.
QuotesOf(s) == {i \in 1..Len(s) : s[i] = QUOTE}

\* The text between the quote at place a and the next quote.
QuotedFrom(s, a) == SubSeq(s, a + 1, Min({j \in QuotesOf(s) : j > a}) - 1)

\* The first double-quoted text of s, or the empty string.
FirstQuoted(s) == IF Cardinality(QuotesOf(s)) < 2 THEN <<>> ELSE QuotedFrom(s, Min(QuotesOf(s)))

\* The text with spaces for its underscores.
Underscoreless(s) == [i \in 1..Len(s) |-> IF s[i] = "_" THEN SP ELSE s[i]]

\* Candidate (a): the description of the footer, "Main document" being none.
FooterCandidate ==
    IF self.tree.footer = <<>> THEN <<>>
    ELSE IF Underscoreless(self.tree.footer[1]) = <<"Main", SP, "document">> THEN <<>>
    ELSE Underscoreless(self.tree.footer[1])

\* Candidate (b): the first quoted text after the case name in the subject.
SubjectCandidate ==
    FirstQuoted(AfterLastOccurrence(clean_string(self.subject), self.case_names[1]))

TraceRemoved(s) ==
    IF s # <<>> /\ s[1] = "-" /\ (\E i \in 1..Len(s) : IsSpace(s[i]))
    THEN SubSeq(s, Min({i \in 1..Len(s) : IsSpace(s[i])}) + 1, Len(s))
    ELSE s

\* A message of a bankruptcy court, not an NDA, with one docket and a
\* subject.
SingleDocketBankruptcy ==
    /\ self.is_bankruptcy
    /\ ~AppellateSet(self)
    /\ Len(self.docket_numbers) = 1
    /\ Truthy(self.subject)

KnownBankruptcyCourts == {cacb, ctb, cob, njb, nysb, pawb}

\* The call returned the empty string and logged one error, whose
\* fingerprint is "<court_id>-not-parsing-short-description".
EmptyAndLoggedOnce ==
    /\ ShortReturned(<<>>)
    /\ call.log = << self.court_id \o <<"-not-parsing-short-description">> >>

OccurringNames(s) == {i \in 1..Len(self.case_names) : Contains(s, self.case_names[i])}

\* The trimmed text of s after the last occurrence of the first cached case
\* name that occurs in it; all of s when none occurs.
AfterFirstOccurringName(s) ==
    IF OccurringNames(s) = {} THEN s
    ELSE strip(AfterLastOccurrence(s, self.case_names[Min(OccurringNames(s))]))

HasPart(ctype) == \E k \in 1..Len(email.parts) : email.parts[k].ctype = ctype

\* C19: once a multipart message with a text/html part and a text/plain
\* part, in either order, is parsed, the content type of the object is
\* text/html and its tree is the body of the text/html part.
C19_HtmlPartPreferred ==
    (/\ call.parsed
     /\ email.multipart
     /\ HasPart("text/html")
     /\ HasPart("text/plain"))
    => /\ self.content_type = "text/html"
       /\ \E k \in 1..Len(email.parts) :
             email.parts[k].ctype = "text/html" /\ self.tree = email.parts[k].body

\* ------------------------------------------------------------------------
\* Observations of several objects.
\* ------------------------------------------------------------------------

\* The object as it is now, running or not.
WorkerNow(id) == IF others.running = id THEN Running ELSE others.parked[id]

\* The reads of the object are the first reads of "alone".
ReadsAsAlone(w) ==
    \A k \in 1..Len(w.reads) : w.reads[k] = others.parked["alone"].reads[k]

\* C20: while the steps of two objects, each parsing its message and then
\* read by its caller, are interleaved in any order, every
\* result the object "first" has given is the result the object "alone"
\* gave for the same message, and once "first" is done its attributes
\* (caches, appellate, subject, content_type, image_attached) are those of
\* "alone". "second" parses any of the messages; the two are scheduled
\* alike.
C20_InterleavedAsAlone ==
    others.running \in Interleaved
    => /\ ReadsAsAlone(WorkerNow("first"))
       /\ Done(WorkerNow("first")) => WorkerNow("first").self = others.parked["alone"].self

\* C20: both objects are between two steps of an extraction, "first" in
\* its second read of a message of two dockets and "second" in its first,
\* and the first result of "first" is a mapping with two dockets.
C20_Witness ==
    /\ others.running \in Interleaved
    /\ WorkerNow("first").email = TwoDocketEmail
    /\ WorkerNow("first").call.pc = "docket_entries"
    /\ WorkerNow("second").call.pc = "case_name"
    /\ Len(WorkerNow("first").reads) = 1
    /\ WorkerNow("second").reads = <<>>
    /\ WorkerNow("first").reads[1].kind = "return"
    /\ Len(WorkerNow("first").reads[1].value.dockets) = 2

\* ------------------------------------------------------------------------
\* Observations of one object and two messages.
\* ------------------------------------------------------------------------

\* The reads of the second message are the first reads of "fresh".
ReadsAsFresh ==
    \A k \in 1..Len(reads) : reads[k] = others.parked["fresh"].reads[k]

\* C21: an object that parsed a first message, whether its reads returned or
\* raised, and then parses a second message gives for the second message
\* the results a fresh object gives for it.
C21_SecondMessageAsFresh ==
    others.running = "second message" => ReadsAsFresh

\* The text of the parsed body holds the phrase of an NDA.
HoldsMarker(o) == \E i \in 1..Len(o.tree.text) : o.tree.text[i] = "Notice of Docket Activity"

\* C22: the appellate value of every result is true exactly when the text
\* of the body holds "Notice of Docket Activity"; the call of _is_appellate
\* that data makes leaves the flag of the object determined, and once it is
\* determined no step changes the flag or what _is_appellate returns.
C22_AppellateOnceAndForAll ==
    [][ /\ \A k \in 1..Len(reads') :
              (reads'[k].kind = "return" /\ reads'[k].value # EmptyMapping)
              => (reads'[k].value.appellate <=> HoldsMarker(self'))
        /\ call.pc = "is_appellate"
           => /\ self'.appellate = (IF HoldsMarker(self) THEN "True" ELSE "False")
              /\ call'.appellate = HoldsMarker(self)
        /\ self.appellate # "None"
           => /\ self'.appellate = self.appellate
              /\ _is_appellate(self') = _is_appellate(self) ]_vars

\* C22: data was read twice on an object that parsed an NDA, and both
\* results are appellate.
C22_Witness ==
    /\ Results = {1, 2}
    /\ HoldsMarker(self)
    /\ self.appellate = "True"
    /\ reads[1].value.appellate /\ reads[2].value.appellate

\* The places of the label in the text.
LabelPlaces(s, label) == {i \in 1..Len(s) : s[i] = label}

\* The cleaned text between place p and the end of its line.
LineValue(s, p) ==
    clean_string(SubSeq(s, p + 1, Min({j \in p..Len(s) : s[j] = NL} \cup {Len(s) + 1}) - 1))

\* The document number the claim expects of a plain-text body: null without
\* a "Document Number:" line, for an empty value and for "No document
\* attached" (and for "doc", see C7), the cleaned value otherwise.
ExpectedPlainDocumentNumber(s) ==
    IF LabelPlaces(s, "Document Number:") = {} THEN None
    ELSE IF LineValue(s, Min(LabelPlaces(s, "Document Number:")))
              \in {<<>>, <<"No document attached">>, <<"doc">>} THEN None
    ELSE LineValue(s, Min(LabelPlaces(s, "Document Number:")))

\* C23: the document number of every entry of a plain-text message is null
\* when the message has no "Document Number:" line or the value of the line
\* is empty or "No document attached", and the cleaned value of the line
\* otherwise.
C23_PlainDocumentNumberSentinels ==
    IsPlain(self)
    => \A x \in ReturnedEntries :
          EntryAt(x).document_number = ExpectedPlainDocumentNumber(self.tree.text)

\* The returned entries of HTML messages that are not NDAs, whose cell of
\* "Document Number:" holds no anchor.
EntriesWithoutAnchor ==
    {x \in ReturnedEntries :
        /\ ~IsPlain(self)
        /\ ~reads[x[1]].value.appellate
        /\ self.tree.tables[x[2]].doc_number_a = <<>>}

\* The text before the first "(" or white space.
TokenBefore(s) ==
    SubSeq(s, 1, Min({i \in 1..Len(s) : s[i] = "(" \/ IsSpace(s[i])} \cup {Len(s) + 1}) - 1)

\* The document number of a cell by its cleaned text: null for no text, for
\* "No document attached" and for "doc", its first token otherwise.
ExpectedCellNumber(cleaned) ==
    IF cleaned \in {<<>>, <<"No document attached">>} \/ TokenBefore(cleaned) = <<"doc">>
    THEN None
    ELSE TokenBefore(cleaned)

\* C24, as stated: an entry of an HTML message that is not an NDA, whose
\* cell of "Document Number:" holds no anchor, has a null document_url, a
\* null document_number and four null identifiers.
C24_NoAnchorAllNull ==
    \A x \in EntriesWithoutAnchor :
        /\ EntryAt(x).document_url = None
        /\ EntryAt(x).document_number = None
        /\ EntryAt(x).pacer_doc_id = None
        /\ EntryAt(x).pacer_case_id = None
        /\ EntryAt(x).pacer_seq_no = None
        /\ EntryAt(x).pacer_magic_num = None

\* C24, amended: such an entry has a null document_url and null
\* pacer_doc_id, pacer_seq_no and pacer_magic_num; its document_number is
\* the first token of the text of the cell, null when the text is empty or
\* "No document attached"; its pacer_case_id comes from the case link alone.
C24_NoAnchorNumberFromText ==
    \A x \in EntriesWithoutAnchor :
        /\ EntryAt(x).document_url = None
        /\ EntryAt(x).pacer_doc_id = None
        /\ EntryAt(x).pacer_seq_no = None
        /\ EntryAt(x).pacer_magic_num = None
        /\ EntryAt(x).document_number =
              ExpectedCellNumber(clean_string(self.tree.tables[x[2]].doc_number_td))
        /\ EntryAt(x).pacer_case_id =
              IF Truthy(_get_case_anchor(self, self.tree.tables[x[2]]))
              THEN _get_case_id_from_case_url(self, _get_case_anchor(self, self.tree.tables[x[2]]))
              ELSE None

\* C24: an entry was returned whose cell holds "12" and no anchor: it has
\* the document number 12 and no document link.
C24_Witness ==
    \E x \in EntriesWithoutAnchor :
        /\ clean_string(self.tree.tables[x[2]].doc_number_td) = <<"12">>
        /\ EntryAt(x).document_number = <<"12">>
        /\ EntryAt(x).document_url = None

\* ------------------------------------------------------------------------
\* Observations of the recipients of links.
\* ------------------------------------------------------------------------

\* The tokens the loop is given: the text after the substitutions, split on
\* blanks.
TokensOf(o, text) == SplitOnBlank(strip(RecipientText(o, text)))

\* The places of the tokens that hold "@".
AddressPlaces(t) == {i \in 1..Len(t) : HasAt(t[i])}

\* The places where a run of tokens with "@" starts.
RunStarts(t) == {i \in AddressPlaces(t) : i = 1 \/ (i - 1) \notin AddressPlaces(t)}

\* The r-th of the places S, in their order.
NthOf(S, r) == CHOOSE i \in S : Cardinality({j \in S : j < i}) = r - 1

\* The last place of the run of tokens with "@" that starts at i.
RunEnd(t, i) == Min({k \in i..Len(t) : (k + 1) \notin AddressPlaces(t)})

\* The tokens without "@" that stand right before place i.
NameTokens(t, i) == SubSeq(t, MaxOr({k \in AddressPlaces(t) : k < i}, 0) + 1, i - 1)

\* The token without its commas.
WithoutCommas(token) == SelectSeq(token, LAMBDA a : a # ",")

\* The recipient of the run of addresses that starts at place i.
RecipientOfRun(t, i) ==
    [name            |-> JoinTokens(NameTokens(t, i)),
     email_addresses |-> [k \in 1..(RunEnd(t, i) - i + 1) |-> WithoutCommas(t[i + k - 1])]]

\* The list is the recipients of the runs of addresses of t, in order.
GroupedByRuns(recipients, t) ==
    /\ Len(recipients) = Cardinality(RunStarts(t))
    /\ \A r \in 1..Len(recipients) :
          recipients[r] = RecipientOfRun(t, NthOf(RunStarts(t), r))

\* C25: the recipients _get_email_recipients_with_links returns are those
\* of the maximal runs of tokens with "@", in the order of the tokens: the
\* name of each is the space-joined maximal run of tokens without "@"
\* right before the run (empty without one), its addresses are the tokens
\* of the run without their commas; tokens without "@" that no address
\* follows give no recipient.
C25_RecipientsGroupedByRuns ==
    (reads # <<>> /\ reads[1].kind = "return")
    => GroupedByRuns(reads[1].value, TokensOf(self, email))

\* C25: two recipients were returned for the four tokens name, address,
\* name, address.
C25_Witness ==
    /\ reads # <<>> /\ reads[1].kind = "return"
    /\ Len(reads[1].value) = 2
    /\ Len(TokensOf(self, email)) = 4
    /\ RunStarts(TokensOf(self, email)) = {2, 4}

\* ------------------------------------------------------------------------
\* Observations of the recipients of a plain-text body.
\* ------------------------------------------------------------------------

\* The lines that are scanned: those of the text after the marker.
ScannedLines(o) ==
    IF FindRecipientBlock(text_content(o)) = <<>> THEN <<>>
    ELSE splitlines(FindRecipientBlock(text_content(o))[1])

\* The place of the first line that holds "Notice will be delivered", or
\* of the last line.
LastScanned(L) ==
    MinOr({k \in 1..Len(L) : \E i \in 1..Len(L[k]) : L[k][i] = "Notice will be delivered"},
          Len(L))

\* The places of the scanned lines that hold "@".
AddressLines(L) == {k \in 1..LastScanned(L) : HasAt(L[k])}

\* The cleaned texts of the lines of L other than line k that are not
\* empty.
OtherLines(L, k) ==
    {clean_string(L[j]) : j \in {i \in 1..Len(L) : i # k /\ clean_string(L[i]) # <<>>}}

\* The recipient is the one of line k: its addresses are the parts of the
\* line, its name is the line before, and for a first line no other line.
RecipientOfLine(recipient, L, k) ==
    /\ recipient.email_addresses = CleanEach(split(L[k], <<",">>))
    /\ IF k > 1 THEN recipient.name = clean_string(L[k - 1])
       ELSE recipient.name \notin OtherLines(L, k)

\* C26: the recipients of a plain-text body are those of the scanned lines
\* with "@", up to the first line that holds "Notice will be delivered":
\* the addresses of each are the comma-separated parts of its line and its
\* name is the cleaned line before; the name of a recipient whose line is
\* the first scanned line is taken from no other line.
C26_PlainRecipientsByLine ==
    reads # <<>>
    => /\ Len(reads[1].value) = Cardinality(AddressLines(ScannedLines(self)))
       /\ \A r \in 1..Len(reads[1].value) :
             RecipientOfLine(reads[1].value[r], ScannedLines(self),
                             NthOf(AddressLines(ScannedLines(self)), r))

\* C27: every docket of a returned result holds exactly one docket entry.
C27_OneEntryPerDocket ==
    \A k \in Results : \A d \in 1..Len(reads[k].value.dockets) :
        Len(reads[k].value.dockets[d].docket_entries) = 1

\* C27: a result of two dockets was returned, each with its one entry.
C27_Witness ==
    \E k \in Results :
        /\ Len(reads[k].value.dockets) = 2
        /\ Len(reads[k].value.dockets[1].docket_entries) = 1
        /\ Len(reads[k].value.dockets[2].docket_entries) = 1

\* ------------------------------------------------------------------------
\* Observations of the description of a plain-text body.
\* ------------------------------------------------------------------------

\* The place of the first "Docket Text:" of s (0: none).
FirstLabel(s) == MinOr(LabelPlaces(s, "Docket Text:"), 0)

\* The place of the first boundary of s after place p (0: none).
FirstBoundary(s, p) ==
    MinOr({j \in (p + 1)..Len(s) :
              s[j] \in {"The following document", "electronically mailed to:"}}, 0)

\* The text g up to the line that holds the place c; all of g for c = 0.
BeforeLineOf(g, c) ==
    IF c = 0 THEN g ELSE SubSeq(g, 1, MaxOr({j \in 1..c : g[j] = NL}, 1) - 1)

\* The text g up to its first line that holds "Notice has been".
BeforeNotice(g) == BeforeLineOf(g, MinOr(LabelPlaces(g, "Notice has been"), 0))

\* The text with blanks for its line ends.
OnOneLine(g) == [i \in 1..Len(g) |-> IF g[i] = NL THEN SP ELSE g[i]]

\* The description the claim describes, for the label at p and the boundary
\* at q; empty without one of them.
DescriptionBetween(s, p, q) ==
    IF p = 0 \/ q = 0 THEN <<>>
    ELSE clean_string(OnOneLine(BeforeNotice(SubSeq(s, p + 1, q - 1))))

ExpectedDescription(s) == DescriptionBetween(s, FirstLabel(s), FirstBoundary(s, FirstLabel(s)))

\* C28: the description of a plain-text body is the cleaned text between
\* the first "Docket Text:" and the first "The following document" or
\* "electronically mailed to:" after it, cut at the first line that holds
\* "Notice has been"; it is returned when it is not empty, and nothing is
\* returned otherwise.
C28_PlainDescriptionBetweenBoundaries ==
    reads # <<>>
    => IF ExpectedDescription(self.tree.text) # <<>>
       THEN ShortReturned(ExpectedDescription(self.tree.text))
       ELSE reads[1].kind = "raise"

\* C28: the text after the label holds a line, then a line with "Notice has
\* been" before the boundary, and the description returned is the first
\* line.
C28_Witness ==
    /\ reads # <<>>
    /\ self.tree.text = <<"Docket Text:", "ORDER", NL, "Notice has been",
                          "electronically mailed to:">>
    /\ ShortReturned(<<"ORDER">>)

\* ------------------------------------------------------------------------
\* Observations of the joined lines of an archived message.
\* ------------------------------------------------------------------------

\* What the claim puts after line i of the lines: the line without its
\* last "=" and nothing more when it ends with one, the line and one blank
\* otherwise; nothing follows the last line.
JoinedLine(lines, i) ==
    IF EndsWithEquals(lines[i]) THEN WithoutLastEquals(lines[i])
    ELSE IF i = Len(lines) THEN lines[i]
    ELSE lines[i] \o <<SP>>

\* The lines joined by what their earlier line ends with.
JoinedByEarlierLine(lines) == Concat([i \in 1..Len(lines) |-> JoinedLine(lines, i)])

\* C29: the text returned holds the lines of the message in order, each
\* without its last "=", two lines in a row having nothing between them
\* when the earlier ends with "=" and one blank otherwise; a blank may
\* stand before the first line.
C29_SeparatorByEarlierLine ==
    reads # <<>>
    => reads[1].value \in {JoinedByEarlierLine(split(email, <<NL>>)),
                           <<SP>> \o JoinedByEarlierLine(split(email, <<NL>>))}

\* ------------------------------------------------------------------------
\* Observations of the order of the steps of one evaluation of data.
\* ------------------------------------------------------------------------

\* The places of an evaluation of data from _get_dockets on.
ExtractionPlaces ==
    {"get_dockets", "docket_number", "case_name", "docket_entries", "override", "finish"}

\* The short description of the message is about to be computed: for the
\* entry of a docket, or for the entries of a message of several dockets.
ShortDescriptionDue ==
    \/ call.pc = "docket_entries"
    \/ call.pc = "override" /\ Len(call.dockets) > 1 /\ WithEntries # {}

\* The dockets this evaluation has added to the cache q since it began
\* with the cache q0.
CachedSince(q, q0) == Len(q) - Len(q0)

\* C30: in one evaluation of data the appellate flag is True or False from
\* the start of _get_dockets on; when the entry of a docket is computed,
\* the docket number and the case name of that docket are the last of
\* their caches, one cached by this evaluation for each docket so far; and
\* whenever a short description is computed no cache is empty.
C30_DeterminedBeforeUse ==
    /\ call.pc \in ExtractionPlaces => self.appellate \in {"True", "False"}
    /\ call.pc = "docket_entries"
       => /\ CachedSince(self.docket_numbers, call.entry.docket_numbers)
               = Len(call.dockets) + 1
          /\ CachedSince(self.case_names, call.entry.case_names)
               = Len(call.dockets) + 1
          /\ Last(self.docket_numbers) = call.docket_number
    /\ ShortDescriptionDue => self.docket_numbers # <<>> /\ self.case_names # <<>>

\* C30: the entry of the second docket of a message is about to be
\* computed, the flag determined and two dockets cached.
C30_Witness ==
    /\ call.pc = "docket_entries"
    /\ Len(call.dockets) = 1
    /\ self.appellate = "False"
    /\ Len(self.docket_numbers) >= 2
    /\ Len(self.case_names) >= 2

====
